---------------------------- MODULE Spec2Model ----------------------------
(***************************************************************************)
(* Message / thought-signature translation pipeline of                     *)
(* antigravity2api-nodejs (src/src/utils/utils.js) and its stream          *)
(* interceptor (src/src/anti-fixer.js).                                    *)
(*                                                                         *)
(* JavaScript values are represented as follows.                           *)
(*   - identifier strings (model names, function names, argument strings,  *)
(*     tool-call ids) are tuples of one-character strings, so that         *)
(*     includes(), charCodeAt() and concatenation are computed as the      *)
(*     code computes them; the empty tuple is the empty string, and is     *)
(*     also what an absent id or arguments field is read as (both are      *)
(*     falsy wherever the code tests them);                                *)
(*   - signatures are opaque TLA+ strings; Undefined is an absent one;     *)
(*   - message text is a tuple of tokens (white space, a word, or a        *)
(*     <think ...>...</think> block with its optional signature attribute  *)
(*     and optional hidden signature comment);                             *)
(*   - objects are records; an absent object is a record [present|->FALSE].*)
(***************************************************************************)
EXTENDS Integers, Sequences, FiniteSets, TLC

VARIABLES
    lastProcessedModelFamily,     \* utils.js:23
    validSignaturesThisSession,   \* utils.js:27, the signature ledger
    toolCallIdToName,             \* utils.js:20, the tool-call registry
    toolsCall,                    \* the last convertOpenAIToolsToAntigravity call
    call,                         \* per request slot: the conversion call
    inflight,                     \* families of requests awaiting a response
    op,                           \* the last ledger operation and its result
    firstId,                      \* history: <<name, arguments>> of a tool call
                                  \* without id -> the first id made for it
    signatureCache,               \* anti-fixer.js:12, call key -> entry
    latestThinkingSignature,      \* anti-fixer.js:260, this.latestThinkingSignature
    stream,                       \* the transformResponseOut call in progress
    request                       \* the last transformRequestIn call

fixerVars == <<signatureCache, latestThinkingSignature, stream, request>>

vars == <<lastProcessedModelFamily, validSignaturesThisSession,
          toolCallIdToName, toolsCall, call, inflight, op, firstId,
          signatureCache, latestThinkingSignature, stream, request>>

-----------------------------------------------------------------------------
(* Bounds of the model.                                                    *)

\* longest chat history handed to one conversion call
MaxHistory == 2

-----------------------------------------------------------------------------
(* Values.                                                                 *)

Undefined == "<undefined>"
Null == "<null>"
SKIP == "skip_thought_signature_validator"

\* JavaScript truthiness of a signature-valued expression
Falsy(s) == s \in {Undefined, Null, ""}

\* real signatures, each issued by one upstream model family
Sigs == {"SIG1", "SIGX"}

SigFamily(s) == IF s = "SIG1" THEN "gemini" ELSE "claude"

\* what a caller may pass where a signature is expected
SigInputs == Sigs \cup {SKIP, "", Undefined}

\* s.includes(needle) on tuples of characters
Includes(s, needle) ==
    \E i \in 1..(Len(s) - Len(needle) + 1) :
        \A j \in 1..Len(needle) : s[i + j - 1] = needle[j]

ClaudeWord == <<"c", "l", "a", "u", "d", "e">>
GeminiWord == <<"g", "e", "m", "i", "n", "i">>

-----------------------------------------------------------------------------
(* simpleHash, utils.js:9-17, on 32-bit integers held as two 16-bit halves *)
(* <<high, low>> (the product 31 * hash does not fit a 32-bit model        *)
(* integer).                                                               *)

\* printable ASCII, code 32 first (three characters are spelled out)
Ascii == <<" ", "!", "dquote", "#", "$", "%", "&", "'", "(", ")", "*", "+", ",",
           "-", ".", "/", "0", "1", "2", "3", "4", "5", "6", "7", "8", "9",
           ":", ";", "<", "=", ">", "?", "@", "A", "B", "C", "D", "E", "F",
           "G", "H", "I", "J", "K", "L", "M", "N", "O", "P", "Q", "R", "S",
           "T", "U", "V", "W", "X", "Y", "Z", "[", "bslash", "]", "^", "_", "btick",
           "a", "b", "c", "d", "e", "f", "g", "h", "i", "j", "k", "l", "m",
           "n", "o", "p", "q", "r", "s", "t", "u", "v", "w", "x", "y", "z",
           "{", "|", "}", "~">>

CodeTable ==
    [c \in {Ascii[i] : i \in 1..Len(Ascii)} |->
        31 + CHOOSE i \in 1..Len(Ascii) : Ascii[i] = c]

\* str.charCodeAt(i)
CharCode(c) == CodeTable[c]

Half == 65536

\* hash = ((hash << 5) - hash) + char; hash = hash & hash
HashStep(h, c) ==
    LET t == 31 * h[2] + c
    IN  <<(31 * h[1] + (t \div Half)) % Half, t % Half>>

RECURSIVE HashFrom(_, _, _)
HashFrom(h, str, i) ==
    IF i > Len(str) THEN h
    ELSE HashFrom(HashStep(h, CharCode(str[i])), str, i + 1)

\* Math.abs of the signed 32-bit value
Abs32(h) ==
    IF h[1] < 32768 THEN h
    ELSE <<(65535 - h[1] + (IF h[2] = 0 THEN 1 ELSE 0)) % Half,
           (Half - h[2]) % Half>>

HexDigit(n) == Ascii[IF n < 10 THEN 17 + n ELSE 56 + n]

Hex4(n) == <<HexDigit(n \div 4096), HexDigit((n \div 256) % 16),
             HexDigit((n \div 16) % 16), HexDigit(n % 16)>>

RECURSIVE StripZeros(_)
StripZeros(d) ==
    IF Len(d) > 1 /\ d[1] = "0" THEN StripZeros(Tail(d)) ELSE d

\* n.toString(16)
ToHex(h) == StripZeros(Hex4(h[1]) \o Hex4(h[2]))

\* str.substring(0, n)
Substring0(s, n) == SubSeq(s, 1, IF Len(s) < n THEN Len(s) ELSE n)

simpleHash(str) == Substring0(ToHex(Abs32(HashFrom(<<0, 0>>, str, 1))), 8)

-----------------------------------------------------------------------------
(* The signature ledger, utils.js:25-57.                                   *)

\* the ledger after registerValidSignature(signature)
\* registerValidSignature without the test for the bypass value
registerAnySignature(ledger, signature) ==
    IF ~Falsy(signature) THEN ledger \cup {signature} ELSE ledger

registerValidSignature(ledger, signature) ==
    IF ~Falsy(signature) /\ signature # SKIP
    THEN ledger \cup {signature}
    ELSE ledger

\* isSignatureValid as the membership test alone
isLedgerMember(ledger, signature) == signature \in ledger

\* the result of isSignatureValid(signature)
isSignatureValid(ledger, signature) ==
    IF Falsy(signature) THEN FALSE
    ELSE IF signature = SKIP THEN TRUE
    ELSE signature \in ledger

getModelFamily(model) ==
    IF model = <<>> THEN "unknown"
    ELSE IF Includes(model, ClaudeWord) THEN "claude"
    ELSE IF Includes(model, GeminiWord) THEN "gemini"
    ELSE "other"

-----------------------------------------------------------------------------
(* Message text.  A text is a tuple of tokens:                             *)
(*   [t |-> "ws", c]                       white space                     *)
(*   [t |-> "word", w]                     visible characters              *)
(*   [t |-> "think", attr, comment, body]  <think signature="attr">body    *)
(*                                         <!-- signature="comment" -->    *)
(*                                         </think>; attr and comment are  *)
(*                                         Undefined when not written      *)

Ws(c) == [t |-> "ws", c |-> c]
Word(w) == [t |-> "word", w |-> w]
ThinkTag(attr, comment, body) ==
    [t |-> "think", attr |-> attr, comment |-> comment, body |-> body]

RECURSIVE TrimStart(_)
TrimStart(s) ==
    IF s # <<>> /\ Head(s).t = "ws" THEN TrimStart(Tail(s)) ELSE s

RECURSIVE TrimEnd(_)
TrimEnd(s) ==
    IF s # <<>> /\ s[Len(s)].t = "ws"
    THEN TrimEnd(SubSeq(s, 1, Len(s) - 1)) ELSE s

Trim(s) == TrimStart(TrimEnd(s))

ThinkPositions(s) == {i \in 1..Len(s) : s[i].t = "think"}

Min(S) == CHOOSE x \in S : \A y \in S : x <= y

Max(S) == CHOOSE x \in S : \A y \in S : x >= y

\* s.includes('<think')
IncludesThink(s) == ThinkPositions(s) # {}

\* the first signature="..." written inside one think block, or Null
TagSignature(tok) ==
    IF tok.attr # Undefined THEN tok.attr
    ELSE IF tok.comment # Undefined THEN tok.comment
    ELSE Null

\* s.match(/signature="([^"]*)"/): the first signature written in s, or Null
FirstSignature(s) ==
    LET P == {i \in ThinkPositions(s) : TagSignature(s[i]) # Null}
    IN  IF P = {} THEN Null ELSE TagSignature(s[Min(P)])

RemoveAt(s, i) == SubSeq(s, 1, i - 1) \o SubSeq(s, i + 1, Len(s))

RECURSIVE RemoveThinks(_)
RemoveThinks(s) ==
    IF s = <<>> THEN <<>>
    ELSE IF Head(s).t = "think" THEN RemoveThinks(Tail(s))
    ELSE <<Head(s)>> \o RemoveThinks(Tail(s))

\* s.replace(/<think[^>]*>[\s\S]*?<\/think[^>]*>/g, '').trim()
StripThinkBlocks(s) == Trim(RemoveThinks(s))

\* s.replace(/signature="[^"]*"/gi, 'signature="skip_..."')
ReplaceSignatures(s) ==
    [i \in 1..Len(s) |->
        IF s[i].t = "think"
        THEN [s[i] EXCEPT !.attr = IF @ = Undefined THEN @ ELSE SKIP,
                          !.comment = IF @ = Undefined THEN @ ELSE SKIP]
        ELSE s[i]]

-----------------------------------------------------------------------------
(* Chat messages (the caller's objects).                                   *)

NoContent == [kind |-> "undefined"]
StringContent(s) == [kind |-> "string", s |-> s]
ArrayContent(items) == [kind |-> "array", items |-> items]

NoThinking == [present |-> FALSE]
Thinking(content, signature) ==
    [present |-> TRUE, content |-> content, signature |-> signature]

ToolCall(id, name, arguments, sig) ==
    [id |-> id, name |-> name, arguments |-> arguments,
     thought_signature |-> sig]

Message(role, content, thinking, tool_calls, tool_call_id) ==
    [role |-> role, content |-> content, thinking |-> thinking,
     tool_calls |-> tool_calls, tool_call_id |-> tool_call_id]

\* sig is in the ledger or is the bypass value (utils.js:183, 211, 249, 426)
InCacheOrSkip(ledger, sig) == sig \in ledger \/ sig = SKIP

-----------------------------------------------------------------------------
(* The pre-pass of openaiMessageToAntigravity, utils.js:378-563.  It works *)
(* on the caller's message objects in place.                               *)

StaleSig(ledger, sig) == ~Falsy(sig) /\ sig \notin ledger /\ sig # SKIP

\* utils.js:390-403
HasStaleGeminiThinking(messages, ledger) ==
    \E i \in 1..Len(messages) :
        LET msg == messages[i]
        IN  /\ msg.role = "assistant"
            /\ IF msg.thinking.present /\ ~Falsy(msg.thinking.signature)
               THEN StaleSig(ledger, msg.thinking.signature)
               ELSE \E k \in 1..Len(msg.tool_calls) :
                        StaleSig(ledger, msg.tool_calls[k].thought_signature)

\* utils.js:420-461, one message
StripMessageForClaude(msg, ledger) ==
    IF msg.role # "assistant" THEN msg
    ELSE
        LET keepThinking ==
                /\ msg.thinking.present
                /\ ~Falsy(msg.thinking.signature)
                /\ InCacheOrSkip(ledger, msg.thinking.signature)
            calls ==
                [k \in 1..Len(msg.tool_calls) |->
                    LET tc == msg.tool_calls[k]
                    IN  IF /\ ~Falsy(tc.thought_signature)
                           /\ ~InCacheOrSkip(ledger, tc.thought_signature)
                        THEN [tc EXCEPT !.thought_signature = Undefined]
                        ELSE tc]
            content ==
                IF msg.content.kind = "string" /\ IncludesThink(msg.content.s)
                THEN LET sig == FirstSignature(msg.content.s)
                     IN  IF ~Falsy(sig) /\ InCacheOrSkip(ledger, sig)
                         THEN msg.content
                         ELSE StringContent(StripThinkBlocks(msg.content.s))
                ELSE msg.content
        IN  [msg EXCEPT !.thinking = IF keepThinking THEN @ ELSE NoThinking,
                        !.tool_calls = calls,
                        !.content = content]

StripForClaude(messages, ledger) ==
    [i \in 1..Len(messages) |-> StripMessageForClaude(messages[i], ledger)]

\* utils.js:527-534, one part of an array content
ValidateArrayPart(part, ledger) ==
    IF /\ part.type = "thinking" \/ part.thinking = TRUE
       /\ ~Falsy(part.signature)
       /\ ~isSignatureValid(ledger, part.signature)
    THEN [part EXCEPT !.signature = SKIP]
    ELSE part

\* a validation that drops what it finds stale, as the pass for claude does
ValidateMessageByStripping(msg, ledger) == StripMessageForClaude(msg, ledger)

\* utils.js:470-536, one message
ValidateMessageSignatures(msg, ledger) ==
    IF msg.role # "assistant" THEN msg
    ELSE
        LET thinking ==
                IF ~msg.thinking.present THEN msg.thinking
                ELSE LET sig == msg.thinking.signature
                     IN  IF Falsy(sig) THEN [msg.thinking EXCEPT !.signature = SKIP]
                         ELSE IF sig = SKIP \/ sig \in ledger THEN msg.thinking
                         ELSE [msg.thinking EXCEPT !.signature = SKIP]
            calls ==
                [k \in 1..Len(msg.tool_calls) |->
                    LET tc == msg.tool_calls[k]
                    IN  IF Falsy(tc.thought_signature)
                        THEN [tc EXCEPT !.thought_signature = SKIP]
                        ELSE IF ~isSignatureValid(ledger, tc.thought_signature)
                        THEN [tc EXCEPT !.thought_signature = SKIP]
                        ELSE tc]
            content ==
                IF msg.content.kind = "string" /\ IncludesThink(msg.content.s)
                THEN LET sig == FirstSignature(msg.content.s)
                     IN  IF ~Falsy(sig) /\ ~isSignatureValid(ledger, sig)
                         THEN StringContent(ReplaceSignatures(msg.content.s))
                         ELSE msg.content
                ELSE IF msg.content.kind = "array"
                THEN ArrayContent([k \in 1..Len(msg.content.items) |->
                        ValidateArrayPart(msg.content.items[k], ledger)])
                ELSE msg.content
        IN  [msg EXCEPT !.thinking = thinking,
                        !.tool_calls = calls,
                        !.content = content]

ValidateSignatures(messages, ledger) ==
    [i \in 1..Len(messages) |-> ValidateMessageSignatures(messages[i], ledger)]

\* utils.js:553-554
IsToolResult(nextMsg) ==
    \/ nextMsg.role = "tool"
    \/ /\ nextMsg.content.kind = "array"
       /\ \E k \in 1..Len(nextMsg.content.items) :
              nextMsg.content.items[k].type = "tool_result"

\* utils.js:544-563 (the model is a claude model)
StripThinkingBeforeUser(messages) ==
    [i \in 1..Len(messages) |->
        IF /\ messages[i].role = "assistant"
           /\ messages[i].thinking.present
           /\ i + 1 <= Len(messages)
           /\ messages[i + 1].role = "user"
           /\ ~IsToolResult(messages[i + 1])
        THEN [messages[i] EXCEPT !.thinking = NoThinking]
        ELSE messages[i]]

IsClaudeModel(modelName) == modelName # <<>> /\ Includes(modelName, ClaudeWord)

\* a switch test that takes the first call for a switch too
IsFamilyChange(lastFamily, currentFamily) == lastFamily # currentFamily

\* a switch test that takes every call after the first for a switch
IsLaterCall(lastFamily, currentFamily) == lastFamily # Null

\* a switch test that sees only switches to gemini
IsSwitchToGemini(lastFamily, currentFamily) ==
    lastFamily # Null /\ lastFamily # currentFamily /\ currentFamily = "gemini"

\* utils.js:382
IsModelSwitch(lastFamily, currentFamily) ==
    lastFamily # Null /\ lastFamily # currentFamily

\* a conversion that never clears the ledger
LedgerKept(ledger, lastFamily, currentFamily) == ledger

\* a conversion that clears the ledger whatever the family
LedgerCleared(ledger, lastFamily, currentFamily) == {}

\* utils.js:411-414: the ledger after the switch test
LedgerAfterSwitch(ledger, lastFamily, currentFamily) ==
    IF IsModelSwitch(lastFamily, currentFamily) THEN {} ELSE ledger

\* utils.js:406: decided on the ledger as it is before line 413 clears it
ShouldStripForClaude(messages, ledger, currentFamily) ==
    currentFamily = "claude" /\ HasStaleGeminiThinking(messages, ledger)

\* utils.js:361-563: the messages after the whole pre-pass
PrePass(messages, modelName, ledger, lastFamily) ==
    LET currentFamily == getModelFamily(modelName)
        shouldStrip == ShouldStripForClaude(messages, ledger, currentFamily)
        cleared == LedgerAfterSwitch(ledger, lastFamily, currentFamily)
        m1 == IF shouldStrip THEN StripForClaude(messages, cleared) ELSE messages
        m2 == IF currentFamily # "claude" THEN ValidateSignatures(m1, cleared) ELSE m1
    IN  IF IsClaudeModel(modelName) THEN StripThinkingBeforeUser(m2) ELSE m2

-----------------------------------------------------------------------------
(* Per-message conversion, utils.js:59-360.  The converted contents are    *)
(* a tuple of [role, parts]; a part is a record holding the fields the     *)
(* code gives it.                                                          *)

EmptyObject == [properties |-> <<>>]

\* a parse that gives the empty object for every string
JsonParseLenient(str) == [ok |-> TRUE, value |-> EmptyObject]

\* JSON.parse of an arguments string: ok is FALSE where it throws
JsonParse(str) ==
    IF str = <<"{", "}">> THEN [ok |-> TRUE, value |-> EmptyObject]
    ELSE [ok |-> FALSE, value |-> EmptyObject]

CallPrefix == <<"c", "a", "l", "l", "_">>

\* an id that also depends on the thought signature of the call
ToolCallIdSigned(toolCall) ==
    IF toolCall.id # <<>> THEN toolCall.id
    ELSE CallPrefix \o simpleHash(toolCall.name \o toolCall.arguments
                 \o (IF Falsy(toolCall.thought_signature) THEN <<>> ELSE <<"s">>))

\* utils.js:166: toolCall.id || `call_${simpleHash(name + (arguments || ''))}`
ToolCallId(toolCall) ==
    IF toolCall.id # <<>> THEN toolCall.id
    ELSE CallPrefix \o simpleHash(toolCall.name \o toolCall.arguments)

\* utils.js:181: toolCall.function.thought_signature || firstSignature
CallSignature(toolCall, firstSignature) ==
    IF ~Falsy(toolCall.thought_signature) THEN toolCall.thought_signature
    ELSE firstSignature

\* utils.js:171-191: the part for one tool call
FunctionCallPart(toolCall, toolCallId, firstSignature, modelName, ledger) ==
    LET part == [functionCall |->
                    [name |-> toolCall.name,
                     args |-> JsonParse(IF toolCall.arguments = <<>>
                                        THEN <<"{", "}">>
                                        ELSE toolCall.arguments).value,
                     id |-> toolCallId]]
        sig == CallSignature(toolCall, firstSignature)
    IN  IF Falsy(sig) THEN part
        ELSE IF IsClaudeModel(modelName) /\ ~InCacheOrSkip(ledger, sig) THEN part
        ELSE [functionCall |-> part.functionCall, thoughtSignature |-> sig]

ArgumentsParse(toolCall) ==
    JsonParse(IF toolCall.arguments = <<>> THEN <<"{", "}">>
              ELSE toolCall.arguments).ok

\* index of the first tool call whose arguments do not parse, 0 if none
FirstBadCall(tool_calls) ==
    LET B == {k \in 1..Len(tool_calls) : ~ArgumentsParse(tool_calls[k])}
    IN  IF B = {} THEN 0 ELSE Min(B)

\* a registry that takes the tool calls of a turn only when all of them
\* were converted
RegisterWholeTurn(registry, tool_calls, ids, n) ==
    IF n < Len(tool_calls) THEN registry
    ELSE [x \in DOMAIN registry \cup {ids[k] : k \in 1..n} |->
             IF x \in {ids[k] : k \in 1..n}
             THEN tool_calls[Max({k \in 1..n : ids[k] = x})].name
             ELSE registry[x]]

\* utils.js:169 for the tool calls 1..n of a turn, in order: a later call
\* with the same id overwrites an earlier one
RegisterCalls(registry, tool_calls, ids, n) ==
    LET new == {ids[k] : k \in 1..n}
    IN  [x \in DOMAIN registry \cup new |->
            IF x \in new
            THEN tool_calls[Max({k \in 1..n : ids[k] = x})].name
            ELSE registry[x]]

\* structured thinking emitted as a thought part whatever its signature
ThoughtPartUnchecked(thinking, modelName, ledger) ==
    [text |-> thinking.content, thought |-> TRUE,
     thoughtSignature |-> thinking.signature]

\* utils.js:206-226
StructuredThinkingPart(thinking, modelName, ledger) ==
    LET sig == thinking.signature
        isValidSig == ~Falsy(sig) /\ InCacheOrSkip(ledger, sig)
    IN  IF IsClaudeModel(modelName) /\ ~isValidSig
        THEN [text |-> thinking.content]
        ELSE [text |-> thinking.content, thought |-> TRUE,
              thoughtSignature |-> sig]

\* utils.js:232-268: the parts for a text whose first think block is at i
ThinkTagParts(content, i, ledger) ==
    LET tag == content[i]
        signature == TagSignature(tag)
        thoughtText == Trim(tag.body)
        isValidSig == ~Falsy(signature) /\ InCacheOrSkip(ledger, signature)
        thought ==
            IF thoughtText = <<>> THEN <<>>
            ELSE IF ~isValidSig THEN <<[text |-> thoughtText]>>
            ELSE <<[text |-> thoughtText, thought |-> TRUE,
                    thoughtSignature |-> signature]>>
        remainingText == Trim(RemoveAt(content, i))
    IN  thought \o (IF remainingText = <<>> THEN <<>>
                    ELSE <<[text |-> remainingText]>>)

\* utils.js:204-288: the text and thought parts of a new model content
ContentParts(message, modelName, ledger) ==
    LET content == IF message.content.kind = "string"
                   THEN TrimEnd(message.content.s) ELSE <<>>
        fromThinking ==
            IF message.thinking.present
            THEN <<StructuredThinkingPart(message.thinking, modelName, ledger)>>
            ELSE <<>>
        hasMatch == /\ ~message.thinking.present
                    /\ IsClaudeModel(modelName)
                    /\ IncludesThink(content)
    IN  fromThinking \o
        (IF hasMatch
         THEN ThinkTagParts(content, Min(ThinkPositions(content)), ledger)
         ELSE IF ~message.thinking.present /\ content # <<>>
         THEN <<[text |-> content]>>
         ELSE <<>>)

\* a turn that puts its tool calls before its thought and text
handleAssistantMessageCallsFirst(message, antigravityMessages, modelName, ledger, registry) ==
    LET ids == [k \in 1..Len(message.tool_calls) |->
                   ToolCallId(message.tool_calls[k])]
        firstSignature ==
            IF message.tool_calls # <<>>
            THEN message.tool_calls[1].thought_signature ELSE Undefined
    IN  [threw |-> FALSE,
         registry |-> RegisterCalls(registry, message.tool_calls, ids,
                                    Len(message.tool_calls)),
         contents |->
             Append(antigravityMessages,
                    [role |-> "model",
                     parts |->
                         [k \in 1..Len(message.tool_calls) |->
                             FunctionCallPart(message.tool_calls[k], ids[k],
                                              firstSignature, modelName,
                                              ledger)]
                         \o ContentParts(message, modelName, ledger)])]

\* utils.js:126-318; threw is TRUE where the code throws
handleAssistantMessage(message, antigravityMessages, modelName, ledger, registry) ==
    IF message.content.kind = "array"
    THEN [threw |-> TRUE, contents |-> antigravityMessages, registry |-> registry]
    ELSE
    LET n == Len(antigravityMessages)
        hasToolCalls == Len(message.tool_calls) > 0
        hasContent ==
            \/ message.content.kind = "string" /\ Trim(message.content.s) # <<>>
            \/ message.thinking.present
        firstSignature ==
            IF hasToolCalls THEN message.tool_calls[1].thought_signature
            ELSE Undefined
        bad == FirstBadCall(message.tool_calls)
        ids == [k \in 1..Len(message.tool_calls) |->
                   ToolCallId(message.tool_calls[k])]
        antigravityTools ==
            [k \in 1..Len(message.tool_calls) |->
                FunctionCallPart(message.tool_calls[k], ids[k], firstSignature,
                                 modelName, ledger)]
    IN  IF bad # 0
        THEN [threw |-> TRUE, contents |-> antigravityMessages,
              registry |-> RegisterCalls(registry, message.tool_calls, ids, bad)]
        ELSE
        [threw |-> FALSE,
         registry |-> RegisterCalls(registry, message.tool_calls, ids,
                                    Len(message.tool_calls)),
         contents |->
            IF n > 0 /\ antigravityMessages[n].role = "model"
               /\ hasToolCalls /\ ~hasContent
            THEN [antigravityMessages EXCEPT
                     ![n].parts = @ \o antigravityTools]
            ELSE Append(antigravityMessages,
                        [role |-> "model",
                         parts |-> (IF hasContent
                                    THEN ContentParts(message, modelName, ledger)
                                    ELSE <<>>) \o antigravityTools])]

RECURSIVE ConcatTexts(_)
\* the text items of an array content, concatenated (utils.js:70-72)
ConcatTexts(items) ==
    IF items = <<>> THEN <<>>
    ELSE (IF Head(items).type = "text" THEN Head(items).text ELSE <<>>)
         \o ConcatTexts(Tail(items))

\* An image_url item holds its url: a data URI with format and data, a public
\* url with what the fetch of it comes to (fate "ok" with the content-type
\* header and the body, "notok" for a response that is not ok, "throws" for
\* a fetch that rejects, "nobody" for a body that cannot be read), or any
\* other text.
DataUrl(format, data) == [scheme |-> "data", format |-> format, data |-> data]
HttpUrl(fate, contentType, data) ==
    [scheme |-> "http", fate |-> fate, contentType |-> contentType,
     data |-> data]
OtherUrl == [scheme |-> "other"]

ImageItem(url) == [type |-> "image_url", url |-> url]

\* utils.js:77: the url is fetched
IsFetched(url, modelName) ==
    modelName # <<>> /\ Includes(modelName, ClaudeWord) /\ url.scheme = "http"

\* utils.js:74-108 for one image_url item: the images it adds to the result
ImageOf(url, modelName) ==
    IF IsFetched(url, modelName) /\ url.fate = "ok"
    THEN <<[inlineData |->
               [mimeType |-> IF Falsy(url.contentType) THEN "image/jpeg"
                             ELSE url.contentType,
                data |-> url.data]]>>
    ELSE IF url.scheme = "data"
    THEN <<[inlineData |-> [mimeType |-> url.format, data |-> url.data]]>>
    ELSE <<>>

RECURSIVE InlineImagesUntilFailure(_, _)
\* a loop that a failed fetch ends
InlineImagesUntilFailure(items, modelName) ==
    IF items = <<>> THEN <<>>
    ELSE IF Head(items).type # "image_url"
    THEN InlineImagesUntilFailure(Tail(items), modelName)
    ELSE IF IsFetched(Head(items).url, modelName)
            /\ Head(items).url.fate # "ok"
    THEN <<>>
    ELSE ImageOf(Head(items).url, modelName)
         \o InlineImagesUntilFailure(Tail(items), modelName)

RECURSIVE InlineImages(_, _)
\* the images of an array content, in order (utils.js:73-108)
InlineImages(items, modelName) ==
    IF items = <<>> THEN <<>>
    ELSE (IF Head(items).type = "image_url"
          THEN ImageOf(Head(items).url, modelName)
          ELSE <<>>)
         \o InlineImages(Tail(items), modelName)

\* utils.js:59-114
extractImagesFromContent(content, modelName) ==
    IF content.kind = "string" THEN [text |-> content.s, images |-> <<>>]
    ELSE IF content.kind = "array"
    THEN [text |-> ConcatTexts(content.items),
          images |-> InlineImages(content.items, modelName)]
    ELSE [text |-> <<>>, images |-> <<>>]

\* a user content whose text has lost the white space at its ends
handleUserMessageTrimmed(extracted, antigravityMessages) ==
    Append(antigravityMessages,
           [role |-> "user",
            parts |-> <<[text |-> Trim(extracted.text)]>> \o extracted.images])

\* utils.js:115-125
handleUserMessage(extracted, antigravityMessages) ==
    Append(antigravityMessages,
           [role |-> "user",
            parts |-> <<[text |-> extracted.text]>> \o extracted.images])

\* utils.js:326-331: the name of the first function call of a content, or <<>>
FirstCallName(content) ==
    LET P == {k \in 1..Len(content.parts) :
                 "functionCall" \in DOMAIN content.parts[k]}
    IN  IF content.role = "model" /\ P # {}
        THEN content.parts[Min(P)].functionCall.name
        ELSE <<>>

\* the scan of the converted contents taken forwards
FallbackNameEarliest(antigravityMessages) ==
    LET P == {i \in 1..Len(antigravityMessages) :
                 FirstCallName(antigravityMessages[i]) # <<>>}
    IN  IF P = {} THEN <<>> ELSE FirstCallName(antigravityMessages[Min(P)])

\* utils.js:324-338: scan the converted contents backwards
FallbackName(antigravityMessages) ==
    LET P == {i \in 1..Len(antigravityMessages) :
                 FirstCallName(antigravityMessages[i]) # <<>>}
    IN  IF P = {} THEN <<>> ELSE FirstCallName(antigravityMessages[Max(P)])

\* a tool result that always starts a content of its own
handleToolCallApart(message, antigravityMessages, registry) ==
    Append(antigravityMessages,
           [role |-> "user",
            parts |-> <<[functionResponse |->
                            [name |-> IF message.tool_call_id \in DOMAIN registry
                                      THEN registry[message.tool_call_id]
                                      ELSE <<>>,
                             id |-> message.tool_call_id,
                             response |-> [output |-> message.content]]]>>])

\* utils.js:319-360
handleToolCall(message, antigravityMessages, registry) ==
    LET looked == IF message.tool_call_id \in DOMAIN registry
                  THEN registry[message.tool_call_id] ELSE <<>>
        functionName == IF looked # <<>> THEN looked
                        ELSE FallbackName(antigravityMessages)
        functionResponse ==
            [functionResponse |->
                [name |-> functionName,
                 id |-> message.tool_call_id,
                 response |-> [output |-> message.content]]]
        n == Len(antigravityMessages)
    IN  IF /\ n > 0
           /\ antigravityMessages[n].role = "user"
           /\ \E k \in 1..Len(antigravityMessages[n].parts) :
                  "functionResponse" \in DOMAIN antigravityMessages[n].parts[k]
        THEN [antigravityMessages EXCEPT ![n].parts = Append(@, functionResponse)]
        ELSE Append(antigravityMessages,
                    [role |-> "user", parts |-> <<functionResponse>>])

Newline == Ws("\n")

RECURSIVE JoinTexts(_)
\* utils.js:574-577: the text parts of a system message joined by newlines
JoinTexts(items) ==
    IF items = <<>> THEN <<>>
    ELSE IF Len(items) = 1 THEN Head(items).text
    ELSE Head(items).text \o <<Newline>> \o JoinTexts(Tail(items))

\* utils.js:570-579
SystemContent(content) ==
    IF content.kind = "string" THEN content.s
    ELSE IF content.kind = "array"
    THEN JoinTexts(SelectSeq(content.items,
                             LAMBDA part : part.text # <<>> \/ part.type = "text"))
    ELSE <<>>

\* an await of extractImagesFromContent suspends the conversion (582, 586)
IsAwaitPoint(message, modelName) ==
    \/ message.role = "user"
    \/ message.role = "system" /\ ~IsClaudeModel(modelName)

\* a loop that hands every system message to handleUserMessage
ConvertMessageSystemAsUser(message, conv, modelName, ledger) ==
    IF message.role \in {"system", "user"}
    THEN [conv EXCEPT !.contents =
             handleUserMessage(
                 extractImagesFromContent(message.content, modelName), @)]
    ELSE IF message.role = "assistant"
    THEN LET r == handleAssistantMessage(message, conv.contents, modelName,
                                         ledger, conv.registry)
         IN  [conv EXCEPT !.contents = r.contents,
                          !.registry = r.registry,
                          !.threw = r.threw]
    ELSE IF message.role = "tool"
    THEN [conv EXCEPT !.contents = handleToolCall(message, @, conv.registry)]
    ELSE conv

\* utils.js:566-593, one message; conv is [contents, systemText, registry, threw]
ConvertMessage(message, conv, modelName, ledger) ==
    IF message.role = "system" /\ IsClaudeModel(modelName)
    THEN [conv EXCEPT !.systemText =
             (IF @ # <<>> THEN @ \o <<Newline>> ELSE @)
             \o SystemContent(message.content)]
    ELSE IF message.role \in {"system", "user"}
    THEN [conv EXCEPT !.contents =
             handleUserMessage(
                 extractImagesFromContent(message.content, modelName), @)]
    ELSE IF message.role = "assistant"
    THEN LET r == handleAssistantMessage(message, conv.contents, modelName,
                                         ledger, conv.registry)
         IN  [conv EXCEPT !.contents = r.contents,
                          !.registry = r.registry,
                          !.threw = r.threw]
    ELSE IF message.role = "tool"
    THEN [conv EXCEPT !.contents = handleToolCall(message, @, conv.registry)]
    ELSE conv

RECURSIVE ConvertFrom(_, _, _, _, _)
\* the loop of utils.js:566-593 from message i to the end, run without
\* interruption
ConvertFrom(messages, i, conv, modelName, ledger) ==
    IF i > Len(messages) \/ conv.threw THEN conv
    ELSE ConvertFrom(messages, i + 1,
                     ConvertMessage(messages[i], conv, modelName, ledger),
                     modelName, ledger)

-----------------------------------------------------------------------------
(* Inputs.                                                                 *)

ClaudeModel == <<"c", "l", "a", "u", "d", "e", "-", "4">>
GeminiModel == <<"g", "e", "m", "i", "n", "i", "-", "3">>
OtherModel == <<"g", "p", "t", "-", "4">>

Models == {ClaudeModel, GeminiModel, OtherModel}

FnF == <<"f">>
FnG == <<"g">>
Braces == <<"{", "}">>
IdA == <<"A">>

UserHi == Message("user", StringContent(<<Word("hi")>>), NoThinking, <<>>, <<>>)

\* an assistant turn that is a structured thought block only
ThoughtTurn(sig) ==
    Message("assistant", NoContent, Thinking(<<Word("plan")>>, sig), <<>>, <<>>)

\* an assistant turn with two parallel tool calls: the first without id,
\* the second without arguments
CallTurn(thinking, s1, id2, s2) ==
    Message("assistant", NoContent, thinking,
            <<ToolCall(<<>>, FnF, Braces, s1), ToolCall(id2, FnG, <<>>, s2)>>,
            <<>>)

\* an assistant turn whose text wraps its reasoning in a think block
TagTurn(attr, comment) ==
    Message("assistant",
            StringContent(<<ThinkTag(attr, comment, <<Word("plan")>>),
                            Ws(" "), Word("ok"), Ws(" ")>>),
            NoThinking, <<>>, <<>>)

Messages ==
    {UserHi,
     ThoughtTurn("SIG1"), ThoughtTurn("SIGX"), ThoughtTurn(Undefined),
     CallTurn(NoThinking, "SIG1", IdA, Undefined),
     CallTurn(NoThinking, Undefined, IdA, "SIGX"),
     CallTurn(Thinking(<<Word("plan")>>, "SIGX"), "SIG1", IdA, Undefined),
     TagTurn("SIGX", Undefined),
     TagTurn(Undefined, "SIG1")}

Histories == UNION {[1..n -> Messages] : n \in 0..MaxHistory}

-----------------------------------------------------------------------------
(* Reading a call's input against its output.  The functionCall parts of   *)
(* the contents, in order, are the parts of the tool calls of the          *)
(* assistant messages, in order.                                           *)

RECURSIVE FlatCalls(_)
\* the tool calls of a history with the first tool call of their turn
FlatCalls(messages) ==
    IF messages = <<>> THEN <<>>
    ELSE (IF Head(messages).role = "assistant"
          THEN [k \in 1..Len(Head(messages).tool_calls) |->
                   [tc |-> Head(messages).tool_calls[k],
                    first |-> Head(messages).tool_calls[1]]]
          ELSE <<>>)
         \o FlatCalls(Tail(messages))

RECURSIVE FlatParts(_)
\* all parts of the contents, in order
FlatParts(contents) ==
    IF contents = <<>> THEN <<>>
    ELSE Head(contents).parts \o FlatParts(Tail(contents))

IsCallPart(part) == "functionCall" \in DOMAIN part

CallParts(contents) == SelectSeq(FlatParts(contents), IsCallPart)

PairOf(tc) == <<tc.name, tc.arguments>>

\* firstId after a call that turned the tool calls `calls` into `parts`
Remember(known, calls, parts) ==
    LET fresh == {k \in 1..Len(calls) :
                     /\ k <= Len(parts)
                     /\ calls[k].tc.id = <<>>
                     /\ PairOf(calls[k].tc) \notin DOMAIN known}
        pairs == {PairOf(calls[k].tc) : k \in fresh}
    IN  [p \in DOMAIN known \cup pairs |->
            IF p \in DOMAIN known THEN known[p]
            ELSE parts[Min({k \in fresh : PairOf(calls[k].tc) = p})]
                     .functionCall.id]

-----------------------------------------------------------------------------
(* anti-fixer.js: the stream interceptor.  A response body is a tuple of   *)
(* chunks.  The text of a chunk is a tuple of pieces: a whole line, or the *)
(* first or the second half of a line that the transport split between two *)
(* chunks.  A line is an SSE data line with its payload, the [DONE] data   *)
(* line, or any other line.  A payload either does not parse as JSON or is *)
(* a delta with the signature of its thinking part (Undefined if none) and *)
(* its tool calls.  A cache entry holds the signature; the timestamp the   *)
(* code stores with it is never read.                                      *)

Malformed == [ok |-> FALSE]
Delta(thinking, tool_calls) ==
    [ok |-> TRUE, thinking |-> thinking, tool_calls |-> tool_calls]

DataLine(payload) == [t |-> "data", payload |-> payload]
DoneLine == [t |-> "done"]
OtherLine == [t |-> "other"]

Whole(line) == [t |-> "whole", line |-> line]
FirstHalf(line) == [t |-> "first", line |-> line]
SecondHalf(line) == [t |-> "second", line |-> line]

\* anti-fixer.js:22: the key keeps the first 24 characters of the base64
\* text, which stand one to one for the first 18 bytes of what is encoded
Base64Kept == 24
BytesKept == (Base64Kept \div 4) * 3

NoKey == [kind |-> "null"]

\* anti-fixer.js:16-24
generateCallKey(functionName, args, id) ==
    IF id # <<>> THEN [kind |-> "id", id |-> id]
    ELSE IF functionName = <<>> THEN NoKey
    ELSE LET argsStr == IF args = <<>> THEN Braces ELSE args
             combined == functionName \o <<":">> \o argsStr
         IN  [kind |-> "call", name |-> functionName,
              hash |-> Substring0(combined, BytesKept)]

\* anti-fixer.js:342-346
generateCallKeyFromStreamCall(tc) ==
    generateCallKey(tc.name, tc.arguments, tc.id)

\* what line.startsWith('data: ') and JSON.parse make of one piece of a
\* chunk (anti-fixer.js:249-253): half a data line is no JSON text
SeenLine(piece) ==
    IF piece.t = "whole" THEN piece.line
    ELSE IF piece.t = "first" /\ piece.line.t = "data" THEN DataLine(Malformed)
    ELSE OtherLine

\* a capture that keeps the entry a fingerprint already has
CaptureCallOnce(st, tc) ==
    LET sig == IF ~Falsy(tc.thought_signature) THEN tc.thought_signature
               ELSE st.latest
        callKey == generateCallKeyFromStreamCall(tc)
    IN  IF Falsy(sig) \/ callKey = NoKey \/ callKey \in DOMAIN st.cache
        THEN st
        ELSE [st EXCEPT !.cache =
                 [k \in DOMAIN st.cache \cup {callKey} |->
                     IF k = callKey THEN [signature |-> sig] ELSE st.cache[k]]]

\* anti-fixer.js:267-278 for one tool call of a delta; st is
\* [cache, latest]
CaptureCall(st, tc) ==
    LET sig == IF ~Falsy(tc.thought_signature) THEN tc.thought_signature
               ELSE st.latest
        callKey == generateCallKeyFromStreamCall(tc)
    IN  IF Falsy(sig) \/ callKey = NoKey THEN st
        ELSE [st EXCEPT !.cache =
                 [k \in DOMAIN st.cache \cup {callKey} |->
                     IF k = callKey THEN [signature |-> sig] ELSE st.cache[k]]]

RECURSIVE CaptureCalls(_, _)
CaptureCalls(st, tool_calls) ==
    IF tool_calls = <<>> THEN st
    ELSE CaptureCalls(CaptureCall(st, Head(tool_calls)), Tail(tool_calls))

\* a scan that gives up the rest of the chunk at a payload that does not
\* parse
RECURSIVE ScanUntilMalformed(_, _)
ScanUntilMalformed(st, lines) ==
    IF lines = <<>> THEN st
    ELSE LET line == Head(lines)
         IN  IF line.t # "data" THEN ScanUntilMalformed(st, Tail(lines))
             ELSE IF ~line.payload.ok THEN st
             ELSE ScanUntilMalformed(
                      CaptureCalls(
                          [st EXCEPT !.latest =
                              IF ~Falsy(line.payload.thinking)
                              THEN line.payload.thinking ELSE @],
                          line.payload.tool_calls),
                      Tail(lines))

RECURSIVE ScanLines(_, _)
\* anti-fixer.js:248-281: the lines of one chunk, in order
ScanLines(st, lines) ==
    IF lines = <<>> THEN st
    ELSE LET line == Head(lines)
         IN  IF line.t # "data" \/ ~line.payload.ok
             THEN ScanLines(st, Tail(lines))
             ELSE ScanLines(
                      CaptureCalls(
                          [st EXCEPT !.latest =
                              IF ~Falsy(line.payload.thinking)
                              THEN line.payload.thinking ELSE @],
                          line.payload.tool_calls),
                      Tail(lines))

\* anti-fixer.js:245-284
processChunkForSignatures(st, chunk) ==
    ScanLines(st, [k \in 1..Len(chunk) |-> SeenLine(chunk[k])])

EventStream == <<"text/event-stream">>

\* an upstream response: fate tells how the body ends once its chunks are read
Response(contentType, hasBody, chunks, fate) ==
    [status |-> "200", statusText |-> "OK",
     headers |-> [contentType |-> contentType],
     hasBody |-> hasBody, chunks |-> chunks, fate |-> fate]

\* anti-fixer.js:193-194
IsEventStream(response) == Includes(response.headers.contentType, EventStream)

NoResponse == [status |-> "", statusText |-> "", headers |-> [contentType |-> <<>>]]

IdleStream ==
    [pc |-> "idle", response |-> Response(<<>>, FALSE, <<>>, "done"),
     chunks |-> <<>>, chunkIndex |-> 0, downstream |-> <<>>,
     returned |-> "none", out |-> NoResponse]

\* a reader that reports done once it has given one chunk
DoneAfterOne(chunks, response) ==
    Len(chunks) >= 1 \/ response.chunks = <<>>

\* anti-fixer.js:206-210: reader.read() gives { done: true } when every
\* chunk of the body has been read
Done(chunks, response) == Len(chunks) = Len(response.chunks)

\* a pull that enqueues the chunk read last
EnqueueNewest(downstream, chunks, chunkIndex) ==
    Append(downstream, chunks[Len(chunks)])

\* anti-fixer.js:224-226: controller.enqueue(chunks[chunkIndex])
Enqueue(downstream, chunks, chunkIndex) ==
    Append(downstream, chunks[chunkIndex + 1])

-----------------------------------------------------------------------------
(* anti-fixer.js: transformRequestIn.  The thought_signature of a tool     *)
(* call record stands for function.thought_signature.  st is               *)
(* [cache, latest].                                                        *)

\* anti-fixer.js:27-31
generateCallKeyFromToolCall(tc) ==
    generateCallKey(tc.name, tc.arguments, tc.id)

\* a helper that tries the latest thinking signature before the cache
ensureSignatureLatestFirst(st, fnObj, callKey) ==
    IF ~Falsy(fnObj.thought_signature) THEN fnObj
    ELSE IF ~Falsy(st.latest)
    THEN [fnObj EXCEPT !.thought_signature = st.latest]
    ELSE IF callKey # NoKey /\ callKey \in DOMAIN st.cache
    THEN [fnObj EXCEPT !.thought_signature = st.cache[callKey].signature]
    ELSE fnObj

\* anti-fixer.js:84-118 with no forced signature
ensureSignature(st, fnObj, callKey) ==
    IF ~Falsy(fnObj.thought_signature) THEN fnObj
    ELSE IF callKey # NoKey /\ callKey \in DOMAIN st.cache
    THEN [fnObj EXCEPT !.thought_signature = st.cache[callKey].signature]
    ELSE IF ~Falsy(st.latest)
    THEN [fnObj EXCEPT !.thought_signature = st.latest]
    ELSE fnObj

\* contentStr.includes('<think>'): an opening tag without attribute
IncludesThinkOpen(s) ==
    \E i \in ThinkPositions(s) : s[i].attr = Undefined

\* contentStr.includes('signature="')
IncludesSignature(s) ==
    \E i \in ThinkPositions(s) :
        s[i].attr # Undefined \/ s[i].comment # Undefined

\* anti-fixer.js:55: the hidden comment goes before the first </think>
InjectSignature(s, signature) ==
    [s EXCEPT ![Min(ThinkPositions(s))].comment = signature]

\* anti-fixer.js:45-78 for one message with a string content
RestoreThinking(st, m) ==
    IF m.content.kind # "string" \/ m.content.s = <<>> THEN m
    ELSE IF m.role # "assistant" \/ Falsy(st.latest) THEN m
    ELSE IF IncludesThinkOpen(m.content.s)
    THEN IF IncludesSignature(m.content.s) THEN m
         ELSE [m EXCEPT !.content.s = InjectSignature(@, st.latest)]
    ELSE IF Trim(m.content.s) # <<>> /\ m.tool_calls # <<>>
    THEN [m EXCEPT !.content.s = <<ThinkTag(Undefined, st.latest, @)>>]
    ELSE m

\* anti-fixer.js:120-131: only the first tool call of a message
EnsureFirstCall(st, msg) ==
    IF msg.tool_calls = <<>> THEN msg
    ELSE [msg EXCEPT !.tool_calls[1] =
             ensureSignature(st, @, generateCallKeyFromToolCall(@))]

\* anti-fixer.js:33-189 on the messages of a request: the result is a copy
transformRequestIn(st, messages) ==
    [i \in 1..Len(messages) |->
        EnsureFirstCall(st, RestoreThinking(st, messages[i]))]

\* a call that works on the object it was given
CallerRequestShared(st, messages) == transformRequestIn(st, messages)

\* anti-fixer.js:41-42: the caller's object after the call, which worked
\* on a copy made through JSON
CallerRequest(st, messages) == messages

NoRequest == [done |-> FALSE, messages |-> <<>>, after |-> <<>>,
              newReq |-> <<>>, cache |-> <<>>, latest |-> Undefined]

-----------------------------------------------------------------------------

(* Tool declarations, utils.js:621-647.  A schema object is a record of    *)
(* the set of its keys that hold plain values, the schemas of its          *)
(* properties, and the schemas under items and additionalProperties (a     *)
(* tuple of none or one).  A tool is its function object; parameters is a  *)
(* tuple of none (the field is absent) or one schema.                      *)

Schema(keys, properties, items, additionalProperties) ==
    [keys |-> keys, properties |-> properties, items |-> items,
     additionalProperties |-> additionalProperties]

Tool(name, parameters) ==
    [name |-> name, description |-> "d", parameters |-> parameters]

\* utils.js:624
unsupportedKeys ==
    {"default", "minItems", "maxItems", "minLength", "maxLength", "pattern",
     "minimum", "maximum", "exclusiveMinimum", "exclusiveMaximum",
     "multipleOf", "format", "examples", "const"}

RECURSIVE sanitizeSchemaForClaude(_)
\* utils.js:622-630
sanitizeSchemaForClaude(schema) ==
    [keys |-> schema.keys \ unsupportedKeys,
     properties |-> [k \in DOMAIN schema.properties |->
                        sanitizeSchemaForClaude(schema.properties[k])],
     items |-> [k \in DOMAIN schema.items |->
                   sanitizeSchemaForClaude(schema.items[k])],
     additionalProperties |->
         [k \in DOMAIN schema.additionalProperties |->
             sanitizeSchemaForClaude(schema.additionalProperties[k])]]

\* utils.js:635-636: what the call makes of tool.function.parameters, in
\* place
ConvertedParameters(parameters, modelName) ==
    LET stripped == [parameters EXCEPT !.keys = @ \ {"$schema"}]
    IN  IF IsClaudeModel(modelName) THEN sanitizeSchemaForClaude(stripped)
        ELSE stripped

\* utils.js:637-645
FunctionDeclarations(tool) ==
    [functionDeclarations |->
        <<[name |-> tool.name, description |-> tool.description,
           parameters |-> tool.parameters[1]]>>]

RECURSIVE ConvertTools(_, _, _)
\* utils.js:634-646: the map over the tools from tool i on; c is
\* [tools, out, threw], tools being the caller's objects.  delete on the
\* parameters of a tool that has none throws a TypeError.
ConvertTools(c, i, modelName) ==
    IF i > Len(c.tools) THEN c
    ELSE IF c.tools[i].parameters = <<>> THEN [c EXCEPT !.threw = TRUE]
    ELSE LET tool == [c.tools[i] EXCEPT !.parameters =
                         <<ConvertedParameters(@[1], modelName)>>]
         IN  ConvertTools([c EXCEPT !.tools[i] = tool,
                                    !.out = Append(@, FunctionDeclarations(tool))],
                          i + 1, modelName)

\* utils.js:632-647
convertOpenAIToolsToAntigravity(openaiTools, modelName) ==
    ConvertTools([tools |-> openaiTools, out |-> <<>>, threw |-> FALSE],
                 1, modelName)

NoTools == [done |-> FALSE, modelName |-> <<>>, input |-> <<>>,
            tools |-> <<>>, out |-> <<>>, threw |-> FALSE]

-----------------------------------------------------------------------------

(* State.                                                                  *)

Slots == {1, 2}

IdleCall ==
    [pc |-> "idle", modelName |-> <<>>, input |-> <<>>, messages |-> <<>>,
     pos |-> 0, contents |-> <<>>, systemText |-> <<>>, cleared |-> {},
     seen |-> {}, prior |-> Null, registry0 |-> <<>>]

NoOp == [name |-> "none", sig |-> Undefined, result |-> FALSE]

Init ==
    /\ lastProcessedModelFamily = Null
    /\ validSignaturesThisSession = {}
    /\ toolCallIdToName = <<>>
    /\ toolsCall = NoTools
    /\ call = [r \in Slots |-> IdleCall]
    /\ inflight = {}
    /\ op = NoOp
    /\ firstId = <<>>
    /\ signatureCache = <<>>
    /\ latestThinkingSignature = Undefined
    /\ stream = IdleStream
    /\ request = NoRequest

AllIdle == \A r \in Slots : call[r].pc = "idle"

\* no call is in progress and the last one has been returned from
Quiet == AllIdle /\ op = NoOp

\* registerValidSignature(signature), called between conversions
RegisterValidSignature(signature) ==
    /\ UNCHANGED <<fixerVars, toolsCall>>
    /\ Quiet
    /\ validSignaturesThisSession' =
           registerValidSignature(validSignaturesThisSession, signature)
    /\ op' = [name |-> "register", sig |-> signature, result |-> FALSE]
    /\ UNCHANGED <<lastProcessedModelFamily, toolCallIdToName, call, inflight,
                   firstId>>

\* isSignatureValid(signature), called between conversions
IsSignatureValid(signature) ==
    /\ UNCHANGED <<fixerVars, toolsCall>>
    /\ Quiet
    /\ op' = [name |-> "isValid", sig |-> signature,
              result |-> isSignatureValid(validSignaturesThisSession, signature)]
    /\ UNCHANGED <<lastProcessedModelFamily, validSignaturesThisSession,
                   toolCallIdToName, call, inflight, firstId>>

\* the state of slot r after the synchronous part of a call: utils.js:361-563
Started(openaiMessages, modelName) ==
    [pc |-> "running",
     modelName |-> modelName,
     input |-> openaiMessages,
     messages |-> PrePass(openaiMessages, modelName,
                          validSignaturesThisSession, lastProcessedModelFamily),
     pos |-> 1,
     contents |-> <<>>,
     systemText |-> <<>>,
     cleared |-> validSignaturesThisSession \
                 LedgerAfterSwitch(validSignaturesThisSession,
                                   lastProcessedModelFamily,
                                   getModelFamily(modelName)),
     seen |-> {PairOf(c.tc) : c \in {FlatCalls(openaiMessages)[k] :
                                        k \in 1..Len(FlatCalls(openaiMessages))}}
              \cap DOMAIN firstId,
     prior |-> lastProcessedModelFamily,
     registry0 |-> toolCallIdToName]

\* slot record c after its loop ran to conv, stopping before message pos
Stopped(c, conv, pos) ==
    [c EXCEPT !.pc = IF conv.threw THEN "threw"
                     ELSE IF pos > Len(c.messages) THEN "returned"
                     ELSE "awaiting",
              !.pos = pos,
              !.contents = conv.contents,
              !.systemText = conv.systemText]

\* openaiMessageToAntigravity(openaiMessages, modelName) run to its end with
\* nothing else scheduled in between
OpenaiMessageToAntigravity(r, openaiMessages, modelName) ==
    /\ UNCHANGED <<fixerVars, toolsCall>>
    /\ Quiet
    /\ LET c == Started(openaiMessages, modelName)
           ledger == LedgerAfterSwitch(validSignaturesThisSession,
                                       lastProcessedModelFamily,
                                       getModelFamily(modelName))
           conv == ConvertFrom(c.messages, 1,
                               [contents |-> <<>>, systemText |-> <<>>,
                                registry |-> toolCallIdToName, threw |-> FALSE],
                               modelName, ledger)
       IN  /\ validSignaturesThisSession' = ledger
           /\ lastProcessedModelFamily' = getModelFamily(modelName)
           /\ toolCallIdToName' = conv.registry
           /\ call' = [call EXCEPT ![r] = Stopped(c, conv, Len(c.messages) + 1)]
           /\ firstId' = Remember(firstId, FlatCalls(openaiMessages),
                                  CallParts(conv.contents))
    /\ op' = [name |-> "convert", sig |-> Undefined, result |-> FALSE]
    /\ UNCHANGED inflight

\* the caller takes the result (or the failure) of the call in slot r
Finish(r) ==
    /\ UNCHANGED <<fixerVars, toolsCall>>
    /\ call[r].pc \in {"returned", "threw"}
    /\ call' = [call EXCEPT ![r] = IdleCall]
    /\ op' = NoOp
    /\ UNCHANGED <<lastProcessedModelFamily, validSignaturesThisSession,
                   toolCallIdToName, inflight, firstId>>

\* the caller of registerValidSignature or isSignatureValid goes on
Return ==
    /\ UNCHANGED <<fixerVars, toolsCall>>
    /\ op.name \in {"register", "isValid"}
    /\ op' = NoOp
    /\ UNCHANGED <<lastProcessedModelFamily, validSignaturesThisSession,
                   toolCallIdToName, call, inflight, firstId>>

Next ==
    \/ \E s \in SigInputs : RegisterValidSignature(s)
    \/ \E s \in SigInputs : IsSignatureValid(s)
    \/ \E h \in Histories, m \in Models : OpenaiMessageToAntigravity(1, h, m)
    \/ Finish(1)
    \/ Return

Spec == Init /\ [][Next]_vars

-----------------------------------------------------------------------------
(* A session: requests are served one at a time, and a signature is        *)
(* registered only when the model of the last request issued it.           *)

\* the signatures the models of a family issue
Issued(family) == {s \in Sigs : SigFamily(s) = family}

SessionRegister(signature) ==
    /\ signature \in Issued(lastProcessedModelFamily)
    /\ RegisterValidSignature(signature)

NextSession ==
    \/ \E s \in Sigs : SessionRegister(s)
    \/ \E h \in Histories, m \in Models : OpenaiMessageToAntigravity(1, h, m)
    \/ Finish(1)
    \/ Return

SpecSession == Init /\ [][NextSession]_vars

-----------------------------------------------------------------------------
(* Concurrent requests: a call gives up control at each await of its loop  *)
(* (utils.js:582, 586), another call may start or go on meanwhile, and the *)
(* signature of a response is registered when the response arrives.        *)

MaxRace == 2

RaceMessages == {UserHi, ThoughtTurn("SIG1")}

RaceHistories == UNION {[1..n -> RaceMessages] : n \in 0..MaxRace}

RaceModels == {ClaudeModel, GeminiModel}

RECURSIVE RunToAwait(_, _, _, _, _)
\* the loop of utils.js:566-593 from message i up to the next await
RunToAwait(messages, i, conv, modelName, ledger) ==
    IF i > Len(messages) \/ conv.threw \/ IsAwaitPoint(messages[i], modelName)
    THEN [conv |-> conv, pos |-> i]
    ELSE RunToAwait(messages, i + 1,
                    ConvertMessage(messages[i], conv, modelName, ledger),
                    modelName, ledger)

ConvOf(c) ==
    [contents |-> c.contents, systemText |-> c.systemText,
     registry |-> toolCallIdToName, threw |-> FALSE]

\* a call starts in slot r, the lowest free slot, and runs up to its first
\* await
Begin(r, openaiMessages, modelName) ==
    /\ UNCHANGED <<fixerVars, toolsCall>>
    /\ call[r].pc = "idle"
    /\ \A q \in Slots : q < r => call[q].pc # "idle"
    /\ LET c == Started(openaiMessages, modelName)
           ledger == LedgerAfterSwitch(validSignaturesThisSession,
                                       lastProcessedModelFamily,
                                       getModelFamily(modelName))
           run == RunToAwait(c.messages, 1, ConvOf(c), modelName, ledger)
       IN  /\ validSignaturesThisSession' = ledger
           /\ lastProcessedModelFamily' = getModelFamily(modelName)
           /\ toolCallIdToName' = run.conv.registry
           /\ call' = [call EXCEPT ![r] = Stopped(c, run.conv, run.pos)]
    /\ UNCHANGED <<inflight, op, firstId>>

\* the awaited extraction of slot r resolves: the message is handled and the
\* loop goes on to its next await
Resume(r) ==
    /\ UNCHANGED <<fixerVars, toolsCall>>
    /\ call[r].pc = "awaiting"
    /\ LET c == call[r]
           conv == ConvertMessage(c.messages[c.pos], ConvOf(c), c.modelName,
                                  validSignaturesThisSession)
           run == RunToAwait(c.messages, c.pos + 1, conv, c.modelName,
                             validSignaturesThisSession)
       IN  /\ toolCallIdToName' = run.conv.registry
           /\ call' = [call EXCEPT ![r] = Stopped(c, run.conv, run.pos)]
    /\ UNCHANGED <<lastProcessedModelFamily, validSignaturesThisSession,
                   inflight, op, firstId>>

\* the request of slot r is sent; its model will answer with a signature
Send(r) ==
    /\ UNCHANGED <<fixerVars, toolsCall>>
    /\ call[r].pc \in {"returned", "threw"}
    /\ call' = [call EXCEPT ![r] = IdleCall]
    /\ inflight' = IF call[r].pc = "returned"
                   THEN inflight \cup Issued(getModelFamily(call[r].modelName))
                   ELSE inflight
    /\ UNCHANGED <<lastProcessedModelFamily, validSignaturesThisSession,
                   toolCallIdToName, op, firstId>>

\* a response arrives and its signature is registered
Deliver(signature) ==
    /\ UNCHANGED <<fixerVars, toolsCall>>
    /\ signature \in inflight
    /\ inflight' = inflight \ {signature}
    /\ validSignaturesThisSession' =
           registerValidSignature(validSignaturesThisSession, signature)
    /\ UNCHANGED <<lastProcessedModelFamily, toolCallIdToName, call, op,
                   firstId>>

NextRace ==
    \/ \E r \in Slots, h \in RaceHistories, m \in RaceModels : Begin(r, h, m)
    \/ \E r \in Slots : Resume(r)
    \/ \E r \in Slots : Send(r)
    \/ \E s \in Sigs : Deliver(s)

SpecRace == Init /\ [][NextRace]_vars

-----------------------------------------------------------------------------
(* Tool call ids: histories of tool calls with and without ids.            *)

MaxIdHistory == 2

FnWeather == <<"g", "e", "t", "_", "w", "e", "a", "t", "h", "e", "r">>
FnZ == <<"z", "z", "z", "z", "z", "z", "z">>

OneCall(tc) == Message("assistant", NoContent, NoThinking, <<tc>>, <<>>)

IdMessages ==
    {UserHi,
     OneCall(ToolCall(<<>>, FnF, Braces, Undefined)),
     OneCall(ToolCall(<<>>, FnF, Braces, "SIG1")),
     OneCall(ToolCall(<<>>, FnWeather, Braces, Undefined)),
     OneCall(ToolCall(<<>>, FnZ, <<>>, Undefined)),
     OneCall(ToolCall(IdA, FnF, Braces, Undefined))}

IdHistories == UNION {[1..n -> IdMessages] : n \in 0..MaxIdHistory}

NextIds ==
    \/ RegisterValidSignature("SIG1")
    \/ \E h \in IdHistories, m \in Models : OpenaiMessageToAntigravity(1, h, m)
    \/ Finish(1)
    \/ Return

SpecIds == Init /\ [][NextIds]_vars

-----------------------------------------------------------------------------
(* Tool results: histories of tool calls, tool messages and a tool call    *)
(* whose arguments are not JSON.                                           *)

MaxToolHistory == 3

IdB == <<"B">>
OpenBrace == <<"{">>

ToolMessage(id) ==
    Message("tool", StringContent(<<Word("ok")>>), NoThinking, <<>>, id)

ToolMessages ==
    {OneCall(ToolCall(IdA, FnZ, <<>>, Undefined)),
     CallTurn(Thinking(<<Word("plan")>>, Undefined), Undefined, IdA, Undefined),
     OneCall(ToolCall(<<>>, FnF, OpenBrace, Undefined)),
     ThoughtTurn(Undefined),
     ToolMessage(IdA),
     ToolMessage(IdB)}

ToolHistories == UNION {[1..n -> ToolMessages] : n \in 0..MaxToolHistory}

NextTools ==
    \/ \E h \in ToolHistories, m \in RaceModels :
           OpenaiMessageToAntigravity(1, h, m)
    \/ Finish(1)

SpecTools == Init /\ [][NextTools]_vars

-----------------------------------------------------------------------------
(* Histories with an assistant message whose content is an array of parts, *)
(* the form the validation of utils.js:525-535 reads.                      *)

MaxContentHistory == 2

TextItem ==
    [type |-> "text", text |-> <<Word("hi")>>, thinking |-> FALSE,
     signature |-> Undefined]

ThinkingItem(sig) ==
    [type |-> "thinking", text |-> <<Word("plan")>>, thinking |-> TRUE,
     signature |-> sig]

ArrayTurn(items) ==
    Message("assistant", ArrayContent(items), NoThinking, <<>>, <<>>)

ContentMessages ==
    {UserHi,
     ThoughtTurn("SIGX"),
     ArrayTurn(<<TextItem>>),
     ArrayTurn(<<ThinkingItem("SIGX"), TextItem>>)}

ContentHistories ==
    UNION {[1..n -> ContentMessages] : n \in 0..MaxContentHistory}

NextContent ==
    \/ \E s \in Sigs : RegisterValidSignature(s)
    \/ Return
    \/ \E h \in ContentHistories, m \in Models :
           OpenaiMessageToAntigravity(1, h, m)
    \/ Finish(1)

SpecContent == Init /\ [][NextContent]_vars

-----------------------------------------------------------------------------
(* Histories whose assistant texts wrap their reasoning in a think block   *)
(* that carries a signature as an attribute, as a hidden comment, or both. *)

MaxTagHistory == 2

TagMessages ==
    {UserHi,
     TagTurn("SIGX", "SIG1"),
     TagTurn("SIG1", "SIGX"),
     TagTurn(Undefined, "SIG1")}

TagHistories == UNION {[1..n -> TagMessages] : n \in 0..MaxTagHistory}

NextTags ==
    \/ \E s \in Sigs : RegisterValidSignature(s)
    \/ Return
    \/ \E h \in TagHistories, m \in Models :
           OpenaiMessageToAntigravity(1, h, m)
    \/ Finish(1)

SpecTags == Init /\ [][NextTags]_vars

-----------------------------------------------------------------------------

(* Histories of all four roles: user and system messages, tool results,    *)
(* and assistant turns with tool calls only and with a thought and tool    *)
(* calls.                                                                  *)

MaxShapeHistory == 3

SystemString ==
    Message("system", StringContent(<<Word("sys")>>), NoThinking, <<>>, <<>>)

SystemArray ==
    Message("system", ArrayContent(<<TextItem, TextItem>>), NoThinking,
            <<>>, <<>>)

TextTurn ==
    Message("assistant", StringContent(<<Word("ok")>>), NoThinking, <<>>, <<>>)

ShapeMessages ==
    {UserHi,
     SystemString,
     ToolMessage(IdA),
     ToolMessage(IdB),
     OneCall(ToolCall(IdA, FnZ, <<>>, Undefined)),
     CallTurn(Thinking(<<Word("plan")>>, "SIGX"), Undefined, IdA, Undefined)}

ShapeHistories == UNION {[1..n -> ShapeMessages] : n \in 0..MaxShapeHistory}

NextShape ==
    \/ \E h \in ShapeHistories, m \in RaceModels :
           OpenaiMessageToAntigravity(1, h, m)
    \/ Finish(1)

SpecShape == Init /\ [][NextShape]_vars

-----------------------------------------------------------------------------
(* Histories of system, user and assistant texts.                          *)

MaxSystemHistory == 3

SystemMessages == {UserHi, SystemString, SystemArray, TextTurn}

SystemHistories ==
    UNION {[1..n -> SystemMessages] : n \in 0..MaxSystemHistory}

NextSystem ==
    \/ \E h \in SystemHistories, m \in Models :
           OpenaiMessageToAntigravity(1, h, m)
    \/ Finish(1)

SpecSystem == Init /\ [][NextSystem]_vars

-----------------------------------------------------------------------------

(* Histories of structured thoughts and signed tool calls, with a ledger   *)
(* that grows between the calls.                                           *)

MaxPassHistory == 2

PassMessages ==
    {UserHi,
     ThoughtTurn("SIG1"),
     ThoughtTurn(Undefined),
     CallTurn(Thinking(<<Word("plan")>>, "SIGX"), "SIG1", IdA, Undefined),
     CallTurn(NoThinking, Undefined, IdA, "SIGX")}

PassHistories == UNION {[1..n -> PassMessages] : n \in 0..MaxPassHistory}

NextPass ==
    \/ \E s \in Sigs : RegisterValidSignature(s)
    \/ Return
    \/ \E h \in PassHistories, m \in Models :
           OpenaiMessageToAntigravity(1, h, m)
    \/ Finish(1)

SpecPass == Init /\ [][NextPass]_vars

-----------------------------------------------------------------------------

(* Histories of user texts: empty, with white space at both ends, and with *)
(* a think block.                                                          *)

MaxTextHistory == 2

UserText(s) == Message("user", StringContent(s), NoThinking, <<>>, <<>>)

Texts ==
    {<<>>,
     <<Word("hi")>>,
     <<Ws(" "), Word("hi"), Ws("\n")>>,
     <<ThinkTag("SIG1", Undefined, <<Word("plan")>>), Ws(" "), Word("x")>>}

TextMessages == {UserText(t) : t \in Texts}

TextHistories == UNION {[1..n -> TextMessages] : n \in 0..MaxTextHistory}

NextText ==
    \/ \E h \in TextHistories, m \in Models \cup {<<>>} :
           OpenaiMessageToAntigravity(1, h, m)
    \/ Finish(1)

SpecText == Init /\ [][NextText]_vars

-----------------------------------------------------------------------------

(* Model names that differ in the case of their letters only.              *)

MaxCaseHistory == 1

ClaudeCapital == <<"C", "l", "a", "u", "d", "e", "-", "4">>
GeminiUpper == <<"G", "E", "M", "I", "N", "I", "-", "3">>

CaseModels == {ClaudeModel, ClaudeCapital, GeminiModel, GeminiUpper}

CaseHistories == UNION {[1..n -> RaceMessages] : n \in 0..MaxCaseHistory}

NextCase ==
    \/ \E s \in Sigs : RegisterValidSignature(s)
    \/ Return
    \/ \E h \in CaseHistories, m \in CaseModels :
           OpenaiMessageToAntigravity(1, h, m)
    \/ Finish(1)

SpecCase == Init /\ [][NextCase]_vars

-----------------------------------------------------------------------------

(* User messages with images: data URIs and public urls whose fetch        *)
(* succeeds, answers with an error status, rejects, or gives a body that   *)
(* cannot be read.                                                         *)

MaxImageHistory == 2

Png == "image/png"
DataA == DataUrl(Png, "AAAA")
HttpB(fate) == HttpUrl(fate, Undefined, "BBBB")
HttpC(fate) == HttpUrl(fate, "image/gif", "CCCC")

PlainItem(w) == [type |-> "text", text |-> <<Word(w)>>]

UserParts(items) == Message("user", ArrayContent(items), NoThinking, <<>>, <<>>)

ImageMessages ==
    {UserHi,
     UserParts(<<PlainItem("a"), ImageItem(HttpB("throws")), PlainItem("b"),
                 ImageItem(DataA)>>),
     UserParts(<<ImageItem(HttpC("ok")), ImageItem(HttpB("notok")),
                 ImageItem(HttpB("ok"))>>),
     UserParts(<<ImageItem(HttpC("nobody")), PlainItem("a")>>),
     UserParts(<<ImageItem(OtherUrl), ImageItem(DataA)>>),
     TextTurn}

ImageHistories == UNION {[1..n -> ImageMessages] : n \in 0..MaxImageHistory}

NextImage ==
    \/ \E h \in ImageHistories, m \in Models \cup {<<>>} :
           OpenaiMessageToAntigravity(1, h, m)
    \/ Finish(1)

SpecImage == Init /\ [][NextImage]_vars

-----------------------------------------------------------------------------

(* Tool declarations for the request of each model.                        *)

MaxTools == 2

Leaf(keys) == Schema(keys, <<>>, <<>>, <<>>)

Schemas ==
    {Leaf({"type"}),
     Leaf({"type", "$schema", "description"}),
     Schema({"type", "default"}, <<Leaf({"type", "format"})>>, <<>>, <<>>),
     Schema({"type"}, <<>>, <<Leaf({"type", "pattern"})>>,
            <<Leaf({"const"})>>)}

ToolInputs ==
    {Tool(FnF, <<s>>) : s \in Schemas} \cup {Tool(FnG, <<>>)}

ToolLists == UNION {[1..n -> ToolInputs] : n \in 0..MaxTools}

\* utils.js:632-647
ConvertOpenAIToolsToAntigravity(openaiTools, modelName) ==
    /\ LET c == convertOpenAIToolsToAntigravity(openaiTools, modelName)
       IN  toolsCall' = [done |-> TRUE, modelName |-> modelName,
                     input |-> openaiTools, tools |-> c.tools,
                     out |-> c.out, threw |-> c.threw]
    /\ UNCHANGED <<lastProcessedModelFamily, validSignaturesThisSession,
                   toolCallIdToName, call, inflight, op, firstId, fixerVars>>

NextDeclare ==
    \E l \in ToolLists, m \in Models \cup {<<>>} :
        ConvertOpenAIToolsToAntigravity(l, m)

SpecDeclare == Init /\ [][NextDeclare]_vars

-----------------------------------------------------------------------------

(* The active family over calls that return and calls that fail: histories *)
(* with a tool call whose arguments are not JSON, after a tool call that   *)
(* is well formed.                                                         *)

MaxSwitchHistory == 2

IdC == <<"C">>

BadSecondCall ==
    Message("assistant", NoContent, NoThinking,
            <<ToolCall(IdC, FnG, Braces, Undefined),
              ToolCall(<<>>, FnF, OpenBrace, Undefined)>>, <<>>)

SwitchMessages == {UserHi, ThoughtTurn("SIG1"), BadSecondCall}

SwitchHistories ==
    UNION {[1..n -> SwitchMessages] : n \in 0..MaxSwitchHistory}

NextSwitch ==
    \/ \E s \in Sigs : RegisterValidSignature(s)
    \/ Return
    \/ \E h \in SwitchHistories, m \in Models \cup {<<>>} :
           OpenaiMessageToAntigravity(1, h, m)
    \/ Finish(1)

SpecSwitch == Init /\ [][NextSwitch]_vars

-----------------------------------------------------------------------------

(* Streamed responses through transformResponseOut (anti-fixer.js:191-243) *)

MaxChunks == 3

IdX == <<"X">>
IdY == <<"Y">>

LineX == DataLine(Delta(Undefined, <<ToolCall(IdX, FnF, Braces, "SIGX")>>))
LineX1 == DataLine(Delta(Undefined, <<ToolCall(IdX, FnF, Braces, "SIG1")>>))
LineF == DataLine(Delta(Undefined, <<ToolCall(<<>>, FnF, Braces, "SIG1")>>))
LineNone == DataLine(Delta(Undefined, <<ToolCall(<<>>, <<>>, <<>>, "SIG1")>>))
LineThink == DataLine(Delta("SIGT", <<>>))
LineY == DataLine(Delta(Undefined, <<ToolCall(IdY, FnG, <<>>, Undefined)>>))
LineBad == DataLine(Malformed)

StreamChunks ==
    {<<Whole(LineX), Whole(OtherLine)>>,
     <<Whole(LineX1)>>,
     <<FirstHalf(LineX)>>,
     <<SecondHalf(LineX), Whole(OtherLine)>>,
     <<Whole(LineBad), Whole(LineF)>>,
     <<Whole(LineNone), Whole(DoneLine)>>,
     <<Whole(LineThink), Whole(LineY)>>}

\* the transport splits a line between the end of one chunk and the start
\* of the next
WellSplit(body) ==
    \A c \in 1..Len(body) : \A k \in 1..Len(body[c]) :
        /\ body[c][k].t = "first" =>
               /\ k = Len(body[c])
               /\ c < Len(body)
               /\ body[c + 1][1] = SecondHalf(body[c][k].line)
        /\ body[c][k].t = "second" =>
               /\ k = 1
               /\ c > 1
               /\ body[c - 1][Len(body[c - 1])] = FirstHalf(body[c][k].line)

Bodies ==
    {body \in UNION {[1..n -> StreamChunks] : n \in 0..MaxChunks} :
        WellSplit(body)}

Json == <<"application/json">>

Responses ==
    {Response(EventStream \o <<"; charset=utf-8">>, TRUE, b, f) :
        b \in Bodies, f \in {"done", "error"}}
    \cup {Response(Json, TRUE, <<<<Whole(LineX)>>>>, "done"),
          Response(EventStream, FALSE, <<>>, "done")}

\* anti-fixer.js:191-199, 241-242: the call begins; a response that is not
\* an event stream with a body is returned as it is
TransformResponseOut(response) ==
    /\ stream.pc = "idle"
    /\ stream' = IF response.hasBody /\ IsEventStream(response)
                 THEN [IdleStream EXCEPT !.pc = "reading",
                                         !.response = response]
                 ELSE [IdleStream EXCEPT !.pc = "passed",
                                         !.response = response,
                                         !.returned = "original"]
    /\ UNCHANGED <<lastProcessedModelFamily, validSignaturesThisSession,
                   toolCallIdToName, call, inflight, op, firstId,
                   signatureCache, latestThinkingSignature, request, toolsCall>>

\* anti-fixer.js:204-216: reader.read() gives a chunk
ReadChunk ==
    /\ stream.pc = "reading"
    /\ ~Done(stream.chunks, stream.response)
    /\ LET value == stream.response.chunks[Len(stream.chunks) + 1]
           st == processChunkForSignatures(
                     [cache |-> signatureCache,
                      latest |-> latestThinkingSignature], value)
       IN  /\ stream' = [stream EXCEPT !.chunks = Append(@, value)]
           /\ signatureCache' = st.cache
           /\ latestThinkingSignature' = st.latest
    /\ UNCHANGED <<lastProcessedModelFamily, validSignaturesThisSession,
                   toolCallIdToName, call, inflight, op, firstId, request,
                   toolsCall>>

\* anti-fixer.js:205-209, 220-239: reader.read() reports done and the new
\* response is returned
ReadDone ==
    /\ stream.pc = "reading"
    /\ Done(stream.chunks, stream.response)
    /\ stream.response.fate = "done"
    /\ stream' = [stream EXCEPT
                     !.pc = "replaying",
                     !.returned = "new",
                     !.out = [status |-> stream.response.status,
                              statusText |-> stream.response.statusText,
                              headers |-> stream.response.headers]]
    /\ UNCHANGED <<lastProcessedModelFamily, validSignaturesThisSession,
                   toolCallIdToName, call, inflight, op, firstId,
                   signatureCache, latestThinkingSignature, request, toolsCall>>

\* anti-fixer.js:204: reader.read() rejects and the call fails
ReadFail ==
    /\ stream.pc = "reading"
    /\ Done(stream.chunks, stream.response)
    /\ stream.response.fate = "error"
    /\ stream' = [stream EXCEPT !.pc = "failed"]
    /\ UNCHANGED <<lastProcessedModelFamily, validSignaturesThisSession,
                   toolCallIdToName, call, inflight, op, firstId,
                   signatureCache, latestThinkingSignature, request, toolsCall>>

\* anti-fixer.js:222-231: the caller reads the new stream
Pull ==
    /\ stream.pc = "replaying"
    /\ stream' = IF stream.chunkIndex < Len(stream.chunks)
                 THEN [stream EXCEPT
                          !.downstream = Enqueue(@, stream.chunks,
                                                 stream.chunkIndex),
                          !.chunkIndex = @ + 1]
                 ELSE [stream EXCEPT !.pc = "closed"]
    /\ UNCHANGED <<lastProcessedModelFamily, validSignaturesThisSession,
                   toolCallIdToName, call, inflight, op, firstId,
                   signatureCache, latestThinkingSignature, request, toolsCall>>

\* the caller is done with the response, or with the failure
Release ==
    /\ stream.pc \in {"closed", "passed", "failed"}
    /\ stream' = IdleStream
    /\ UNCHANGED <<lastProcessedModelFamily, validSignaturesThisSession,
                   toolCallIdToName, call, inflight, op, firstId,
                   signatureCache, latestThinkingSignature, request, toolsCall>>

NextStream ==
    \/ \E response \in Responses : TransformResponseOut(response)
    \/ ReadChunk
    \/ ReadDone
    \/ ReadFail
    \/ Pull
    \/ Release

SpecStream == Init /\ [][NextStream]_vars

-----------------------------------------------------------------------------
(* Requests through transformRequestIn while responses stream through the  *)
(* same adapter instance.  The call is synchronous; request keeps its      *)
(* argument, its result and the cache and latest signature it ran with.    *)

MaxRequest == 1

TextCall(tc) ==
    Message("assistant", StringContent(<<Word("plan")>>), NoThinking,
            <<tc>>, <<>>)

RequestMessages ==
    {UserHi,
     OneCall(ToolCall(IdX, FnF, Braces, Undefined)),
     OneCall(ToolCall(IdX, FnF, Braces, "SIG1")),
     OneCall(ToolCall(<<>>, FnF, Braces, Undefined)),
     Message("assistant", NoContent, NoThinking,
             <<ToolCall(IdY, FnG, <<>>, Undefined),
               ToolCall(IdX, FnF, Braces, Undefined)>>, <<>>),
     TextCall(ToolCall(IdX, FnF, Braces, Undefined))}

Requests == UNION {[1..n -> RequestMessages] : n \in 0..MaxRequest}

RecoverResponses ==
    {Response(EventStream, TRUE, b, "done") :
        b \in {<<<<Whole(LineX)>>>>,
               <<<<Whole(LineX1)>>>>,
               <<<<Whole(LineF)>>>>,
               <<<<Whole(LineThink)>>, <<Whole(LineY)>>>>}}
    \cup {Response(EventStream, TRUE, <<<<Whole(LineX)>>>>, "error"),
          Response(Json, TRUE, <<<<Whole(LineX)>>>>, "done")}

\* anti-fixer.js:33-189
TransformRequestIn(messages) ==
    /\ request' =
           [done |-> TRUE, messages |-> messages,
            after |-> CallerRequest(
                          [cache |-> signatureCache,
                           latest |-> latestThinkingSignature], messages),
            newReq |-> transformRequestIn(
                           [cache |-> signatureCache,
                            latest |-> latestThinkingSignature], messages),
            cache |-> signatureCache, latest |-> latestThinkingSignature]
    /\ UNCHANGED <<lastProcessedModelFamily, validSignaturesThisSession,
                   toolCallIdToName, call, inflight, op, firstId,
                   signatureCache, latestThinkingSignature, stream,
                   toolsCall>>

NextRecover ==
    \/ \E response \in RecoverResponses : TransformResponseOut(response)
    \/ ReadChunk
    \/ ReadDone
    \/ ReadFail
    \/ Pull
    \/ Release
    \/ \E messages \in Requests : TransformRequestIn(messages)

SpecRecover == Init /\ [][NextRecover]_vars

-----------------------------------------------------------------------------

(* Calls that fail part way: a stream whose read fails after its chunks,   *)
(* and a conversion that meets a tool call whose arguments are not JSON    *)
(* after tool calls that are well formed.                                  *)

BadMiddleCall ==
    Message("assistant", NoContent, NoThinking,
            <<ToolCall(IdC, FnG, Braces, Undefined),
              ToolCall(<<>>, FnF, OpenBrace, Undefined),
              ToolCall(IdB, FnF, Braces, Undefined)>>, <<>>)

AbortHistories ==
    {<<>>,
     <<ThoughtTurn("SIG1")>>,
     <<BadMiddleCall>>,
     <<OneCall(ToolCall(IdA, FnZ, <<>>, Undefined)), UserHi, BadMiddleCall>>}

AbortResponses ==
    {Response(EventStream, TRUE, b, f) :
        b \in {<<>>,
               <<<<Whole(LineX)>>>>,
               <<<<Whole(LineThink)>>, <<Whole(LineY), Whole(LineF)>>>>},
        f \in {"done", "error"}}

NextAbort ==
    \/ \E response \in AbortResponses : TransformResponseOut(response)
    \/ ReadChunk
    \/ ReadDone
    \/ ReadFail
    \/ Pull
    \/ Release
    \/ \E s \in Sigs : RegisterValidSignature(s)
    \/ Return
    \/ \E h \in AbortHistories, m \in RaceModels :
           OpenaiMessageToAntigravity(1, h, m)
    \/ Finish(1)

SpecAbort == Init /\ [][NextAbort]_vars

-----------------------------------------------------------------------------

(* The first stream of an adapter instance: the cache is empty and no      *)
(* thinking signature has been seen when the call begins.                  *)

Fresh == signatureCache = <<>> /\ latestThinkingSignature = Undefined

NextSplit ==
    \/ \E response \in Responses : Fresh /\ TransformResponseOut(response)
    \/ ReadChunk
    \/ ReadDone
    \/ ReadFail
    \/ Pull
    \/ Release

SpecSplit == Init /\ [][NextSplit]_vars

-----------------------------------------------------------------------------

(* Streams of one adapter instance, one after the other, some with a       *)
(* thinking signature and some with a tool call that has no signature.     *)

CarryResponses ==
    {Response(EventStream, TRUE, b, "done") :
        b \in {<<<<Whole(LineThink)>>>>,
               <<<<Whole(LineY)>>>>,
               <<<<Whole(LineX)>>, <<Whole(LineY)>>>>,
               <<<<Whole(LineThink)>>, <<Whole(LineY), Whole(LineF)>>>>}}

NextCarry ==
    \/ \E response \in CarryResponses : TransformResponseOut(response)
    \/ ReadChunk
    \/ ReadDone
    \/ Pull
    \/ Release

SpecCarry == Init /\ [][NextCarry]_vars

-----------------------------------------------------------------------------

(* Turns with a thought, a text and tool calls, and turns of tool calls    *)
(* only that merge into the content before them.                           *)

MaxOrderHistory == 2

TagCalls(attr, comment) ==
    Message("assistant",
            StringContent(<<Word("so"), Ws(" "),
                            ThinkTag(attr, comment, <<Word("plan")>>),
                            Ws(" "), Word("ok")>>),
            NoThinking,
            <<ToolCall(IdA, FnF, Braces, Undefined)>>, <<>>)

OrderMessages ==
    {UserHi,
     TextCall(ToolCall(IdX, FnF, Braces, Undefined)),
     TagCalls("SIG1", Undefined),
     CallTurn(Thinking(<<Word("plan")>>, "SIG1"), "SIG1", IdB, Undefined),
     CallTurn(NoThinking, Undefined, IdB, "SIGX")}

OrderHistories == UNION {[1..n -> OrderMessages] : n \in 0..MaxOrderHistory}

NextOrder ==
    \/ RegisterValidSignature("SIG1")
    \/ Return
    \/ \E h \in OrderHistories, m \in Models :
           OpenaiMessageToAntigravity(1, h, m)
    \/ Finish(1)

SpecOrder == Init /\ [][NextOrder]_vars

-----------------------------------------------------------------------------

(* Streams whose upstream may stay silent: after the chunks of the body the *)
(* read of a hanging response never resolves.  The event loop runs the     *)
(* continuation of every read that resolves, which is the fairness of      *)
(* SpecLive; the code arms no timer (anti-fixer.js:200-217).               *)

HangingResponses ==
    {Response(EventStream, TRUE, b, "hang") : b \in Bodies}

NextLive ==
    \/ \E response \in Responses \cup HangingResponses :
           TransformResponseOut(response)
    \/ ReadChunk
    \/ ReadDone
    \/ ReadFail
    \/ Pull
    \/ Release

SpecLive ==
    /\ Init
    /\ [][NextLive]_vars
    /\ WF_vars(ReadChunk)
    /\ WF_vars(ReadDone)
    /\ WF_vars(ReadFail)

-----------------------------------------------------------------------------

(* Properties.                                                             *)

Returned(r) == call[r].pc = "returned"

Finished(r) == call[r].pc \in {"returned", "threw"}

CarriesSignature(part) == "thoughtSignature" \in DOMAIN part

MarkedThought(part) == "thought" \in DOMAIN part /\ part.thought = TRUE

\* C1: a conversion call for another family than the active one leaves no
\* signature valid, and a signature that is not valid becomes valid again
\* only by a registerValidSignature call for that signature.
C1_StaleAfterFamilySwitch ==
    [][/\ (/\ op'.name = "convert"
           /\ lastProcessedModelFamily # Null
           /\ lastProcessedModelFamily' # lastProcessedModelFamily)
          => \A s \in Sigs : ~isSignatureValid(validSignaturesThisSession', s)
       /\ \A s \in Sigs :
             (/\ ~isSignatureValid(validSignaturesThisSession, s)
              /\ isSignatureValid(validSignaturesThisSession', s))
             => (op'.name = "register" /\ op'.sig = s)]_vars

\* a call for another family has just removed registered signatures
C1_Witness ==
    \E r \in Slots :
        /\ Returned(r)
        /\ call[r].cleared # {}
        /\ \A s \in call[r].cleared :
               ~isSignatureValid(validSignaturesThisSession, s)

\* C4: every part of returned contents that carries a thoughtSignature
\* carries the bypass value or a member of the ledger, and every part marked
\* as a thought carries such a signature.
C4_EmittedSignaturesValid ==
    \A r \in Slots :
        Returned(r) =>
            LET parts == FlatParts(call[r].contents)
            IN  \A k \in 1..Len(parts) :
                    /\ CarriesSignature(parts[k]) =>
                           \/ parts[k].thoughtSignature = SKIP
                           \/ parts[k].thoughtSignature \in validSignaturesThisSession
                    /\ MarkedThought(parts[k]) => CarriesSignature(parts[k])

\* a claude call returned a thought part and a function call part that carry
\* a registered signature
C4_Witness ==
    \E r \in Slots :
        /\ Returned(r)
        /\ IsClaudeModel(call[r].modelName)
        /\ LET parts == FlatParts(call[r].contents)
           IN  /\ \E k \in 1..Len(parts) :
                      /\ MarkedThought(parts[k])
                      /\ parts[k].thoughtSignature \in validSignaturesThisSession
               /\ \E k \in 1..Len(parts) :
                      /\ IsCallPart(parts[k])
                      /\ CarriesSignature(parts[k])
                      /\ parts[k].thoughtSignature \in validSignaturesThisSession

\* C5: after a switch from gemini to another family, an assistant turn whose
\* thought signature is not in the ledger has lost its thought block
\* (claude) or has the bypass value as its signature (other families).
C5_StaleThoughtRemovedOnSwitch ==
    [][(/\ op'.name = "convert"
        /\ lastProcessedModelFamily = "gemini"
        /\ lastProcessedModelFamily' # "gemini")
       => \A r \in Slots :
            call'[r].pc \in {"returned", "threw"} =>
              \A i \in 1..Len(call'[r].input) :
                LET before == call'[r].input[i]
                    after == call'[r].messages[i]
                IN  (/\ before.role = "assistant"
                     /\ before.thinking.present
                     /\ ~Falsy(before.thinking.signature)
                     /\ before.thinking.signature # SKIP
                     /\ before.thinking.signature \notin validSignaturesThisSession')
                    => IF lastProcessedModelFamily' = "claude"
                       THEN ~after.thinking.present
                       ELSE /\ after.thinking.present
                            /\ after.thinking.signature = SKIP]_vars

ExpectedSignature(c) ==
    IF ~Falsy(c.tc.thought_signature) THEN c.tc.thought_signature
    ELSE c.first.thought_signature

\* C9: each functionCall part carries its tool call's own thought_signature,
\* or else that of the first tool call of the turn (stated for signatures
\* that are ledger-valid when the call returns).
C9_SharedTurnSignature ==
    \A r \in Slots :
        Returned(r) =>
            LET calls == FlatCalls(call[r].input)
                parts == CallParts(call[r].contents)
            IN  /\ Len(parts) = Len(calls)
                /\ \A k \in 1..Len(calls) :
                       (/\ ~Falsy(ExpectedSignature(calls[k]))
                        /\ InCacheOrSkip(validSignaturesThisSession,
                                         ExpectedSignature(calls[k])))
                       => /\ CarriesSignature(parts[k])
                          /\ parts[k].thoughtSignature = ExpectedSignature(calls[k])

\* C2: in a session, every thoughtSignature in the contents a conversion
\* returns is the bypass value or a signature that the family of that
\* conversion issued and that is in the ledger.
C2_NoForeignSignatureEmitted ==
    \A r \in Slots :
        Returned(r) =>
            LET parts == FlatParts(call[r].contents)
            IN  \A k \in 1..Len(parts) :
                    CarriesSignature(parts[k]) =>
                        \/ parts[k].thoughtSignature = SKIP
                        \/ /\ parts[k].thoughtSignature
                                  \in Issued(getModelFamily(call[r].modelName))
                           /\ parts[k].thoughtSignature
                                  \in validSignaturesThisSession

\* a claude call returned a part with a signature claude issued, from a
\* history that also held a signature gemini issued
C2_Witness ==
    \E r \in Slots :
        /\ Returned(r)
        /\ getModelFamily(call[r].modelName) = "claude"
        /\ \E i \in 1..Len(call[r].input) :
               /\ call[r].input[i].thinking.present
               /\ call[r].input[i].thinking.signature \in Issued("gemini")
        /\ LET parts == FlatParts(call[r].contents)
           IN  \E k \in 1..Len(parts) :
                   /\ CarriesSignature(parts[k])
                   /\ parts[k].thoughtSignature \in Issued("claude")

\* C3: with interleaved calls and late responses, a signature is valid only
\* while the family that issued it is the active family, and the contents a
\* call returns carry only the bypass value or signatures of its own family.
C3_NeverFalselyValid ==
    /\ \A s \in Sigs :
           isSignatureValid(validSignaturesThisSession, s)
           => s \in Issued(lastProcessedModelFamily)
    /\ \A r \in Slots :
           Returned(r) =>
               LET parts == FlatParts(call[r].contents)
               IN  \A k \in 1..Len(parts) :
                       CarriesSignature(parts[k]) =>
                           \/ parts[k].thoughtSignature = SKIP
                           \/ parts[k].thoughtSignature
                                  \in Issued(getModelFamily(call[r].modelName))

\* C6: the ledger never holds the bypass value or an empty or missing
\* signature; registerValidSignature leaves the ledger as it is for these
\* and inserts every other signature.
C6_LedgerHoldsNoSentinel ==
    /\ [](validSignaturesThisSession \cap {SKIP, "", Undefined, Null} = {})
    /\ [][op'.name = "register" =>
            validSignaturesThisSession' =
                IF op'.sig \in {SKIP, "", Undefined}
                THEN validSignaturesThisSession
                ELSE validSignaturesThisSession \cup {op'.sig}]_vars

\* the bypass value has just been registered on a ledger that holds signatures
C6_Witness ==
    /\ op.name = "register"
    /\ op.sig = SKIP
    /\ validSignaturesThisSession # {}

\* C7: isSignatureValid answers true for the bypass value, false for an
\* empty or missing signature, and otherwise whether the signature is in the
\* ledger; it does not change the ledger.
C7_IsSignatureValidResult ==
    /\ [](op.name = "isValid" =>
            op.result = CASE op.sig = SKIP -> TRUE
                          [] op.sig \in {"", Undefined} -> FALSE
                          [] OTHER -> op.sig \in validSignaturesThisSession)
    /\ [][op'.name = "isValid" =>
            validSignaturesThisSession' = validSignaturesThisSession]_vars

\* the bypass value was found valid on the empty ledger of an active family
C7_Witness ==
    /\ op.name = "isValid"
    /\ op.sig = SKIP
    /\ op.result = TRUE
    /\ validSignaturesThisSession = {}
    /\ lastProcessedModelFamily # Null

\* C8: a conversion call adds no signature to the ledger, leaves the ledger
\* unchanged when its family is the active one, and removes signatures only
\* when its family differs from the active one.
C8_ConversionLedgerFrame ==
    [][op'.name = "convert" =>
         /\ validSignaturesThisSession' \subseteq validSignaturesThisSession
         /\ lastProcessedModelFamily' = lastProcessedModelFamily
                => validSignaturesThisSession' = validSignaturesThisSession
         /\ validSignaturesThisSession' # validSignaturesThisSession
                => /\ lastProcessedModelFamily # Null
                   /\ lastProcessedModelFamily' # lastProcessedModelFamily]_vars

\* a call of the active family returned with signatures still in the ledger
C8_Witness ==
    \E r \in Slots :
        /\ Returned(r)
        /\ call[r].prior = getModelFamily(call[r].modelName)
        /\ validSignaturesThisSession # {}
        /\ call[r].input # <<>>

\* C10: every functionCall part has an id; a tool call with an id keeps it,
\* and a tool call without one gets the id that the first conversion of the
\* same name and arguments gave, whatever the state of that conversion.
C10_SynthesizedIdDeterministic ==
    \A r \in Slots :
        Returned(r) =>
            LET calls == FlatCalls(call[r].input)
                parts == CallParts(call[r].contents)
            IN  /\ Len(parts) = Len(calls)
                /\ \A k \in 1..Len(calls) :
                       /\ parts[k].functionCall.id # <<>>
                       /\ IF calls[k].tc.id # <<>>
                          THEN parts[k].functionCall.id = calls[k].tc.id
                          ELSE /\ PairOf(calls[k].tc) \in DOMAIN firstId
                               /\ parts[k].functionCall.id
                                      = firstId[PairOf(calls[k].tc)]

\* a call that switched the family and cleared the ledger returned ids for
\* names and arguments that an earlier call had already turned into ids
C10_Witness ==
    \E r \in Slots :
        /\ Returned(r)
        /\ call[r].seen # {}
        /\ call[r].cleared # {}
        /\ \E k \in 1..Len(FlatCalls(call[r].input)) :
               /\ FlatCalls(call[r].input)[k].tc.id = <<>>
               /\ PairOf(FlatCalls(call[r].input)[k].tc) \in call[r].seen

\* the positions of the tool messages of a history, in order
ToolTurns(input) ==
    SelectSeq([i \in 1..Len(input) |-> i], LAMBDA i : input[i].role = "tool")

RECURSIVE ResponsesFrom(_, _)
\* the functionResponse parts of the contents from content c on, in order,
\* each with the position of its content
ResponsesFrom(contents, c) ==
    IF c > Len(contents) THEN <<>>
    ELSE SelectSeq([k \in 1..Len(contents[c].parts) |->
                       [c |-> c, part |-> contents[c].parts[k]]],
                   LAMBDA x : "functionResponse" \in DOMAIN x.part)
         \o ResponsesFrom(contents, c + 1)

\* the name the registry holds for the id of tool message i when the
\* registry held reg as the call began, or <<>>
RegisteredName(input, i, reg) ==
    LET id == input[i].tool_call_id
        Same(j) == {k \in 1..Len(input[j].tool_calls) :
                       ToolCallId(input[j].tool_calls[k]) = id}
        J == {j \in 1..(i - 1) : input[j].role = "assistant" /\ Same(j) # {}}
    IN  IF J # {} THEN input[Max(J)].tool_calls[Max(Same(Max(J)))].name
        ELSE IF id \in DOMAIN reg THEN reg[id]
        ELSE <<>>

\* the names of the function calls of the nearest model content before
\* content c that has a function call; the empty name if there is none
NearestCallNames(contents, c) ==
    LET HasCall(k) == \E p \in 1..Len(contents[k].parts) :
                          IsCallPart(contents[k].parts[p])
        P == {k \in 1..(c - 1) : contents[k].role = "model" /\ HasCall(k)}
    IN  IF P = {} THEN {<<>>}
        ELSE {contents[Max(P)].parts[p].functionCall.name :
                 p \in {q \in 1..Len(contents[Max(P)].parts) :
                           IsCallPart(contents[Max(P)].parts[q])}}

\* the tool messages of the call in slot r have the names that a registry
\* holding reg at the start of the call gives
NamesResolved(r, reg) ==
    LET tools == ToolTurns(call[r].input)
        resp == ResponsesFrom(call[r].contents, 1)
    IN  /\ Len(resp) = Len(tools)
        /\ \A n \in 1..Len(tools) :
               LET known == RegisteredName(call[r].input, tools[n], reg)
                   name == resp[n].part.functionResponse.name
               IN  /\ known # <<>> => name = known
                   /\ known = <<>> =>
                          name \in NearestCallNames(call[r].contents, resp[n].c)

\* C11: a tool message with a registered tool_call_id gets the registered
\* name; one with an unregistered id gets a name of the nearest preceding
\* model content that has a function call, and the empty name if none has.
C11_ToolNameResolution ==
    \A r \in Slots : Returned(r) => NamesResolved(r, call[r].registry0)

\* a tool message with an unregistered id took its name from a model content
\* two contents back, past a model content without a function call
C11_Witness ==
    \E r \in Slots :
        /\ Returned(r)
        /\ LET resp == ResponsesFrom(call[r].contents, 1)
               tools == ToolTurns(call[r].input)
           IN  \E n \in 1..Len(resp) :
                   /\ Len(resp) = Len(tools)
                   /\ RegisteredName(call[r].input, tools[n],
                                     call[r].registry0) = <<>>
                   /\ resp[n].part.functionResponse.name = FnZ
                   /\ resp[n].c = 3
                   /\ call[r].contents[2].role = "model"

\* C12: the name resolved for a tool message depends only on the history
\* of its own call: it is the name an empty registry at the start of the
\* call gives.
C12_RegistryScopedPerCall ==
    \A r \in Slots : Returned(r) => NamesResolved(r, <<>>)

BadArguments(tc) == tc.arguments # <<>> /\ tc.arguments # Braces

HasBadCall(input) ==
    \E i \in 1..Len(input) :
        /\ input[i].role = "assistant"
        /\ \E k \in 1..Len(input[i].tool_calls) :
               BadArguments(input[i].tool_calls[k])

\* C17: a conversion fails exactly when its history holds a tool call whose
\* arguments are not JSON, and a tool call with empty arguments gets the
\* empty object as its args.
C17_MalformedArgumentsFail ==
    \A r \in Slots :
        /\ Finished(r) => (call[r].pc = "threw" <=> HasBadCall(call[r].input))
        /\ Returned(r) =>
               LET calls == FlatCalls(call[r].input)
                   parts == CallParts(call[r].contents)
               IN  /\ Len(parts) = Len(calls)
                   /\ \A k \in 1..Len(calls) :
                          calls[k].tc.arguments = <<>>
                          => parts[k].functionCall.args = EmptyObject

\* a conversion failed at a tool call with bad arguments that came after a
\* tool call with empty arguments
C17_Witness ==
    \E r \in Slots :
        /\ call[r].pc = "threw"
        /\ Len(call[r].input) >= 2
        /\ call[r].input[1].tool_calls # <<>>
        /\ call[r].input[1].tool_calls[1].arguments = <<>>
        /\ call[r].contents # <<>>
        /\ call[r].input[2].tool_calls # <<>>
        /\ BadArguments(call[r].input[2].tool_calls[1])

\* C13: when a conversion call has returned or failed, the caller's message
\* list is as it was handed over.
C13_CallerHistoryUnchanged ==
    \A r \in Slots : Finished(r) => call[r].messages = call[r].input

\* every message of the call in slot r made one content of its own
Aligned(r) == Len(call[r].contents) = Len(call[r].input)

FollowedByUser(input, i) == i < Len(input) /\ input[i + 1].role = "user"

\* C19: for claude, the content of a structured thought block (of a turn
\* that no user turn follows) is a part of the turn's model content: a
\* thought part with the signature when the signature is ledger-valid, a
\* plain text part otherwise.
C19_ThoughtContentNeverDropped ==
    \A r \in Slots :
        (Returned(r) /\ IsClaudeModel(call[r].modelName) /\ Aligned(r)) =>
            \A i \in 1..Len(call[r].input) :
                LET msg == call[r].input[i]
                    parts == call[r].contents[i].parts
                IN  (/\ msg.role = "assistant"
                     /\ msg.thinking.present
                     /\ ~FollowedByUser(call[r].input, i))
                    => \E k \in 1..Len(parts) :
                           /\ "text" \in DOMAIN parts[k]
                           /\ parts[k].text = msg.thinking.content
                           /\ IF isSignatureValid(validSignaturesThisSession,
                                                  msg.thinking.signature)
                              THEN /\ MarkedThought(parts[k])
                                   /\ parts[k].thoughtSignature
                                          = msg.thinking.signature
                              ELSE /\ ~MarkedThought(parts[k])
                                   /\ ~CarriesSignature(parts[k])

\* C20: for claude, the model content of an assistant turn that a user turn
\* follows has no part marked as a thought.
C20_NoThoughtBeforeUserTurn ==
    \A r \in Slots :
        (Returned(r) /\ IsClaudeModel(call[r].modelName) /\ Aligned(r)) =>
            \A i \in 1..Len(call[r].input) :
                (/\ call[r].input[i].role = "assistant"
                 /\ FollowedByUser(call[r].input, i)
                 /\ ~IsToolResult(call[r].input[i + 1]))
                => \A k \in 1..Len(call[r].contents[i].parts) :
                       ~MarkedThought(call[r].contents[i].parts[k])


-----------------------------------------------------------------------------
(* Reading a response body: its pieces in order, the lines of the byte      *)
(* stream, the lines that lie whole in a chunk, and the tool calls of the   *)
(* data lines with a flag telling whether a malformed payload came before.  *)

RECURSIVE Pieces(_)
Pieces(chunks) ==
    IF chunks = <<>> THEN <<>> ELSE Head(chunks) \o Pieces(Tail(chunks))

RECURSIVE StreamLines(_)
StreamLines(pieces) ==
    IF pieces = <<>> THEN <<>>
    ELSE IF Head(pieces).t = "second" THEN StreamLines(Tail(pieces))
    ELSE <<Head(pieces).line>> \o StreamLines(Tail(pieces))

RECURSIVE WholeLines(_)
WholeLines(pieces) ==
    IF pieces = <<>> THEN <<>>
    ELSE IF Head(pieces).t = "whole"
    THEN <<Head(pieces).line>> \o WholeLines(Tail(pieces))
    ELSE WholeLines(Tail(pieces))

RECURSIVE CallsOfLines(_, _)
CallsOfLines(lines, bad) ==
    IF lines = <<>> THEN <<>>
    ELSE LET line == Head(lines)
         IN  IF line.t # "data" THEN CallsOfLines(Tail(lines), bad)
             ELSE IF ~line.payload.ok THEN CallsOfLines(Tail(lines), TRUE)
             ELSE [k \in 1..Len(line.payload.tool_calls) |->
                      [tc |-> line.payload.tool_calls[k], afterBad |-> bad]]
                  \o CallsOfLines(Tail(lines), bad)

SameCall(a, b) ==
    IF a.id # <<>> \/ b.id # <<>> THEN a.id = b.id
    ELSE a.name = b.name /\ a.arguments = b.arguments

\* the cache maps the fingerprint of tc to sig
CachedAs(tc, sig) ==
    IF tc.id # <<>>
    THEN /\ [kind |-> "id", id |-> tc.id] \in DOMAIN signatureCache
         /\ signatureCache[[kind |-> "id", id |-> tc.id]].signature = sig
    ELSE \E k \in DOMAIN signatureCache :
            /\ k.kind = "call"
            /\ k.name = tc.name
            /\ signatureCache[k].signature = sig

Processed == stream.pc \in {"replaying", "closed"}

\* the last call of calls with this fingerprint is at i, and it is signed
LastSigned(calls, i) ==
    /\ ~Falsy(calls[i].tc.thought_signature)
    /\ calls[i].tc.id # <<>> \/ calls[i].tc.name # <<>>
    /\ \A j \in (i + 1)..Len(calls) : ~SameCall(calls[i].tc, calls[j].tc)

\* C14: the response returned for an event stream with a body delivers the
\* upstream chunks, the same ones in the same order, none dropped, doubled
\* or changed, and closes after the last one; its status, status text and
\* headers are the upstream ones; any other response is returned as it is,
\* its body unread.
C14_ReplayEqualsUpstream ==
    /\ stream.pc \in {"replaying", "closed"} =>
          /\ stream.returned = "new"
          /\ stream.response.hasBody /\ IsEventStream(stream.response)
          /\ stream.downstream =
                SubSeq(stream.response.chunks, 1, stream.chunkIndex)
          /\ stream.out.status = stream.response.status
          /\ stream.out.statusText = stream.response.statusText
          /\ stream.out.headers = stream.response.headers
    /\ stream.pc = "closed" => stream.downstream = stream.response.chunks
    /\ stream.pc = "passed" =>
          /\ stream.returned = "original"
          /\ stream.chunks = <<>> /\ stream.downstream = <<>>
    /\ stream.pc \in {"reading", "failed"} => stream.returned = "none"
    /\ stream.pc # "idle" =>
          (stream.pc = "passed" <=>
              ~(stream.response.hasBody /\ IsEventStream(stream.response)))

C14_Witness ==
    /\ stream.pc = "closed"
    /\ Len(stream.response.chunks) >= 2
    /\ stream.response.chunks[1] # stream.response.chunks[2]
    /\ stream.downstream = stream.response.chunks

\* C15: once a stream is processed, every tool call of a data line of the
\* stream that carries a signature, and is the last of the stream with its
\* fingerprint, is in the cache with that signature, under the id when it
\* has one and else under a key of its name; a call with neither id nor name
\* has no entry.
C15_SignedCallsCaptured ==
    /\ NoKey \notin DOMAIN signatureCache
    /\ Processed =>
          LET calls == CallsOfLines(
                           StreamLines(Pieces(stream.response.chunks)), FALSE)
          IN  \A i \in 1..Len(calls) :
                 LastSigned(calls, i) =>
                     CachedAs(calls[i].tc, calls[i].tc.thought_signature)

\* C16: a payload that is not JSON never makes the call fail (only a read
\* of the upstream does), every signed tool call on a later line that lies
\* whole in the same or a later chunk is still captured, and the replay
\* delivers the upstream chunks.
C16_MalformedLineSkipped ==
    /\ stream.pc = "failed" => stream.response.fate = "error"
    /\ stream.pc = "closed" => stream.downstream = stream.response.chunks
    /\ Processed =>
          LET calls == CallsOfLines(
                           WholeLines(Pieces(stream.response.chunks)), FALSE)
          IN  \A i \in 1..Len(calls) :
                 calls[i].afterBad /\ LastSigned(calls, i) =>
                     CachedAs(calls[i].tc, calls[i].tc.thought_signature)

C16_Witness ==
    /\ stream.pc = "closed"
    /\ Len(stream.response.chunks) = 2
    /\ stream.response.chunks[1] = <<Whole(LineBad), Whole(LineF)>>
    /\ stream.response.chunks[2] = <<Whole(LineX), Whole(OtherLine)>>
    /\ CachedAs(ToolCall(<<>>, FnF, Braces, "SIG1"), "SIG1")
    /\ CachedAs(ToolCall(IdX, FnF, Braces, "SIGX"), "SIGX")

\* C18: a conversion of a history whose tool-call arguments are all well
\* formed returns contents, whatever the ledger, the active family, the
\* target model and the signatures of the history.
C18_ConversionAlwaysReturns ==
    \A r \in Slots :
        Finished(r) /\ ~HasBadCall(call[r].input) => Returned(r)

-----------------------------------------------------------------------------
(* The pre-pass and the emission for the families that are not claude.      *)

RECURSIVE IsSubsequence(_, _)
IsSubsequence(s, t) ==
    IF s = <<>> THEN TRUE
    ELSE IF t = <<>> THEN FALSE
    ELSE IF Head(s) = Head(t) THEN IsSubsequence(Tail(s), Tail(t))
    ELSE IsSubsequence(s, Tail(t))

\* what the claim asks of a signature: kept when ledger-valid, else the
\* sentinel
Bypassed(ledger, sig) ==
    IF ~Falsy(sig) /\ (sig \in ledger \/ sig = SKIP) THEN sig ELSE SKIP

\* the thought parts the structured thought blocks of a history ask for
RECURSIVE ThoughtsAskedFor(_, _)
ThoughtsAskedFor(input, ledger) ==
    IF input = <<>> THEN <<>>
    ELSE LET msg == Head(input)
         IN  (IF msg.role = "assistant" /\ msg.thinking.present
              THEN <<[text |-> msg.thinking.content, thought |-> TRUE,
                      thoughtSignature |->
                          Bypassed(ledger, msg.thinking.signature)]>>
              ELSE <<>>)
             \o ThoughtsAskedFor(Tail(input), ledger)

NonStrict(r) == getModelFamily(call[r].modelName) # "claude"

\* C21: for a family other than claude, when the call has returned, every
\* assistant message still has its thought block and its tool calls, each
\* of their signatures is the input's when that is ledger-valid (the ledger
\* taken after the clear of a switch) and the sentinel otherwise, and every
\* structured thought block of the input is emitted, in order, as a part
\* marked as a thought with that signature.
C21_NonStrictNeverDeletes ==
    \A r \in Slots :
        (Returned(r) /\ NonStrict(r)) =>
            /\ Len(call[r].messages) = Len(call[r].input)
            /\ \A i \in 1..Len(call[r].input) :
                   LET old == call[r].input[i]
                       new == call[r].messages[i]
                   IN  old.role = "assistant" =>
                          /\ new.thinking.present = old.thinking.present
                          /\ old.thinking.present =>
                                /\ new.thinking.content = old.thinking.content
                                /\ new.thinking.signature =
                                      Bypassed(validSignaturesThisSession,
                                               old.thinking.signature)
                          /\ Len(new.tool_calls) = Len(old.tool_calls)
                          /\ \A k \in 1..Len(old.tool_calls) :
                                new.tool_calls[k] =
                                    [old.tool_calls[k] EXCEPT
                                        !.thought_signature =
                                            Bypassed(validSignaturesThisSession, @)]
            /\ IsSubsequence(
                   ThoughtsAskedFor(call[r].input, validSignaturesThisSession),
                   SelectSeq(FlatParts(call[r].contents), MarkedThought))

C21_Witness ==
    \E r \in Slots :
        /\ Returned(r) /\ NonStrict(r)
        /\ call[r].cleared # {}
        /\ validSignaturesThisSession = {}
        /\ Len(call[r].input) = 2
        /\ call[r].input[1] = ThoughtTurn("SIG1")
        /\ call[r].input[2] = CallTurn(Thinking(<<Word("plan")>>, "SIGX"),
                                       "SIG1", IdA, Undefined)
        /\ call[r].messages[1].thinking.signature = SKIP
        /\ Len(SelectSeq(FlatParts(call[r].contents), MarkedThought)) = 2

-----------------------------------------------------------------------------
(* Think blocks in assistant texts.                                         *)

BothSigned(msg) ==
    /\ msg.role = "assistant"
    /\ msg.content.kind = "string"
    /\ Len(msg.content.s) >= 1
    /\ msg.content.s[1].t = "think"
    /\ msg.content.s[1].attr # Undefined
    /\ msg.content.s[1].comment # Undefined

\* C22: for claude, the model content of an assistant text whose think
\* block has a signature as attribute and another as hidden comment starts
\* with the thought text without the comment; when that part is marked as a
\* thought its signature is the comment's, it is so marked when the
\* comment's signature is ledger-valid, and the text outside the block
\* follows as a plain text part.
C22_HiddenMarkerWins ==
    \A r \in Slots :
        (Returned(r) /\ IsClaudeModel(call[r].modelName) /\ Aligned(r)) =>
            \A i \in 1..Len(call[r].input) :
                LET msg == call[r].input[i]
                    parts == call[r].contents[i].parts
                    tag == msg.content.s[1]
                IN  (BothSigned(msg) /\ call[r].messages[i] = msg) =>
                        /\ Len(parts) = 2
                        /\ parts[1].text = Trim(tag.body)
                        /\ MarkedThought(parts[1]) =>
                              parts[1].thoughtSignature = tag.comment
                        /\ isSignatureValid(validSignaturesThisSession,
                                            tag.comment)
                              => MarkedThought(parts[1])
                        /\ parts[2] = [text |-> Trim(Tail(msg.content.s))]

-----------------------------------------------------------------------------
(* The shape of the emitted contents.                                       *)

IsResponsePart(part) == "functionResponse" \in DOMAIN part

HoldsResponse(content) ==
    \E k \in 1..Len(content.parts) : IsResponsePart(content.parts[k])

Kind(content) ==
    IF content.role = "model" THEN "model"
    ELSE IF content.role = "user" /\ HoldsResponse(content) THEN "resp"
    ELSE content.role

Kinds(contents) == [k \in 1..Len(contents) |-> Kind(contents[k])]

ResponseIds(content) ==
    [k \in 1..Len(content.parts) |-> content.parts[k].functionResponse.id]

\* the ids of the function responses of the contents that hold one
GroupedIds(contents) ==
    LET groups == SelectSeq(contents, HoldsResponse)
    IN  [g \in 1..Len(groups) |-> ResponseIds(groups[g])]

\* the maximal runs of consecutive tool messages, as their tool_call_ids;
\* cur is the run under way
RECURSIVE ToolRuns(_, _)
ToolRuns(msgs, cur) ==
    IF msgs = <<>> THEN (IF cur = <<>> THEN <<>> ELSE <<cur>>)
    ELSE IF Head(msgs).role = "tool"
    THEN ToolRuns(Tail(msgs), Append(cur, Head(msgs).tool_call_id))
    ELSE (IF cur = <<>> THEN <<>> ELSE <<cur>>) \o ToolRuns(Tail(msgs), <<>>)

Unmixed(contents) ==
    \A k \in 1..Len(contents) :
        HoldsResponse(contents[k]) =>
            \A p \in 1..Len(contents[k].parts) :
                IsResponsePart(contents[k].parts[p])

\* the system messages that go to systemInstruction emit nothing
IsSilent(msg, modelName) == msg.role = "system" /\ IsClaudeModel(modelName)

Emitting(input, modelName) ==
    SelectSeq(input, LAMBDA msg : ~IsSilent(msg, modelName))

\* C23 as stated: every content with a function response holds nothing
\* else, and the contents with function responses are, in order, the
\* maximal runs of consecutive tool messages of the history, each with the
\* responses of its run in history order.
C23_ToolRunsGrouped ==
    \A r \in Slots :
        Returned(r) =>
            /\ Unmixed(call[r].contents)
            /\ GroupedIds(call[r].contents) = ToolRuns(call[r].input, <<>>)

\* C23 amended: the same, the runs being taken in the history without the
\* system messages that emit no content (those of a claude call): such a
\* message between two tool messages does not end the run.
C23_ToolRunsGroupedAmongEmitting ==
    \A r \in Slots :
        Returned(r) =>
            /\ Unmixed(call[r].contents)
            /\ GroupedIds(call[r].contents)
                   = ToolRuns(Emitting(call[r].input, call[r].modelName), <<>>)

C23_Witness ==
    \E r \in Slots :
        /\ Returned(r)
        /\ call[r].input = <<UserHi, ToolMessage(IdB), ToolMessage(IdA)>>
        /\ Len(call[r].contents) = 2
        /\ Kinds(call[r].contents) = <<"user", "resp">>
        /\ ResponseIds(call[r].contents[2]) = <<IdB, IdA>>

\* an assistant turn with tool calls, no text and no thought
ToolOnly(msg) ==
    /\ msg.role = "assistant"
    /\ Len(msg.tool_calls) > 0
    /\ ~msg.thinking.present
    /\ msg.content.kind = "string" => Trim(msg.content.s) = <<>>

\* the kinds of the contents a history asks for; last is the kind of the
\* last content so far
RECURSIVE Shape(_, _, _)
Shape(msgs, modelName, last) ==
    IF msgs = <<>> THEN <<>>
    ELSE LET msg == Head(msgs)
             kind == IF msg.role = "assistant" THEN "model"
                     ELSE IF msg.role = "tool" THEN "resp"
                     ELSE "user"
             joins == \/ IsSilent(msg, modelName)
                      \/ msg.role = "tool" /\ last = "resp"
                      \/ ToolOnly(msg) /\ last = "model"
         IN  IF IsSilent(msg, modelName)
             THEN Shape(Tail(msgs), modelName, last)
             ELSE (IF joins THEN <<>> ELSE <<kind>>)
                  \o Shape(Tail(msgs), modelName, kind)

OnlyCalls(content) ==
    /\ content.parts # <<>>
    /\ \A k \in 1..Len(content.parts) : IsCallPart(content.parts[k])

\* C24: an assistant turn with tool calls, no text and no thought joins the
\* last content when that is a model content, every other assistant turn
\* makes a model content of its own, and no model content made of function
\* calls only comes directly after a model content.
C24_ToolOnlyTurnsMerge ==
    \A r \in Slots :
        Returned(r) =>
            /\ Kinds(call[r].contents)
                   = Shape(call[r].input, call[r].modelName, "none")
            /\ \A k \in 2..Len(call[r].contents) :
                   ~(/\ call[r].contents[k - 1].role = "model"
                     /\ call[r].contents[k].role = "model"
                     /\ OnlyCalls(call[r].contents[k]))

RECURSIVE JoinLines(_)
JoinLines(texts) ==
    IF texts = <<>> THEN <<>>
    ELSE IF Len(texts) = 1 THEN Head(texts)
    ELSE Head(texts) \o <<Newline>> \o JoinLines(Tail(texts))

SystemTexts(input) ==
    LET S == SelectSeq(input, LAMBDA msg : msg.role = "system")
    IN  [k \in 1..Len(S) |-> SystemContent(S[k].content)]

\* C25: for claude the systemInstruction is the texts of the system
\* messages in history order and the contents are those of the other
\* messages; for another family the systemInstruction is empty and the
\* content at the place of a system message is a user content with its
\* text; the contents have no role but user and model.
C25_SystemMessagesRouted ==
    \A r \in Slots :
        Returned(r) =>
            /\ \A k \in 1..Len(call[r].contents) :
                   call[r].contents[k].role \in {"user", "model"}
            /\ IF IsClaudeModel(call[r].modelName)
               THEN /\ call[r].systemText = JoinLines(SystemTexts(call[r].input))
                    /\ Kinds(call[r].contents)
                           = Shape(SelectSeq(call[r].input,
                                             LAMBDA msg : msg.role # "system"),
                                   call[r].modelName, "none")
               ELSE /\ call[r].systemText = <<>>
                    /\ Len(call[r].contents) = Len(call[r].input)
                    /\ \A i \in 1..Len(call[r].input) :
                           call[r].input[i].role = "system" =>
                               /\ call[r].contents[i].role = "user"
                               /\ call[r].contents[i].parts =
                                      <<[text |-> ConcatTexts(
                                            IF call[r].input[i].content.kind = "array"
                                            THEN call[r].input[i].content.items
                                            ELSE <<[type |-> "text",
                                                    text |-> call[r].input[i].content.s]>>)]>>

C25_Witness ==
    \E r \in Slots :
        /\ Returned(r)
        /\ IsClaudeModel(call[r].modelName)
        /\ call[r].input = <<SystemString, UserHi, SystemArray>>
        /\ call[r].systemText = <<Word("sys"), Newline, Word("hi"), Newline,
                                  Word("hi")>>
        /\ Len(call[r].contents) = 1

-----------------------------------------------------------------------------
(* Completion.                                                              *)

\* C26: a transformResponseOut call that is reading the upstream eventually
\* completes, with the new response or with a failure.
C26_EveryCallCompletes ==
    (stream.pc = "reading") ~> (stream.pc \in {"replaying", "failed"})

-----------------------------------------------------------------------------
(* Converting a history again.                                              *)

\* the conversion of history by a call made in this state for this model
Again(history, modelName) ==
    LET ledger == LedgerAfterSwitch(validSignaturesThisSession,
                                    lastProcessedModelFamily,
                                    getModelFamily(modelName))
    IN  ConvertFrom(PrePass(history, modelName, validSignaturesThisSession,
                            lastProcessedModelFamily),
                    1,
                    [contents |-> <<>>, systemText |-> <<>>,
                     registry |-> toolCallIdToName, threw |-> FALSE],
                    modelName, ledger)

ValidlySigned(part) ==
    /\ CarriesSignature(part)
    /\ isSignatureValid(validSignaturesThisSession, part.thoughtSignature)

\* C27: when a call has returned, converting the same history again for the
\* same model (the history as the caller first had it, or as the call left
\* it) returns too, and every part the first conversion emitted with a
\* ledger-valid signature is a part of the second one, same part and same
\* signature, in the same order.
C27_SecondConversionKeepsSignatures ==
    \A r \in Slots :
        Returned(r) =>
            \A history \in {call[r].input, call[r].messages} :
                LET again == Again(history, call[r].modelName)
                IN  /\ ~again.threw
                    /\ IsSubsequence(
                           SelectSeq(FlatParts(call[r].contents), ValidlySigned),
                           FlatParts(again.contents))

C27_Witness ==
    \E r \in Slots :
        /\ Returned(r)
        /\ call[r].messages # call[r].input
        /\ \E k \in 1..Len(FlatParts(call[r].contents)) :
               /\ ValidlySigned(FlatParts(call[r].contents)[k])
               /\ FlatParts(call[r].contents)[k].thoughtSignature = "SIG1"
        /\ \E k \in 1..Len(FlatParts(call[r].contents)) :
               /\ ValidlySigned(FlatParts(call[r].contents)[k])
               /\ FlatParts(call[r].contents)[k].thoughtSignature = SKIP

-----------------------------------------------------------------------------
(* User texts.                                                              *)

\* C28: the conversion of a history of one user message with a string
\* content returns one user content whose only part is the text as it was
\* given, and an empty systemInstruction, whatever the model.
C28_UserTextRoundTrip ==
    \A r \in Slots :
        (/\ Returned(r)
         /\ Len(call[r].input) = 1
         /\ call[r].input[1].role = "user"
         /\ call[r].input[1].content.kind = "string")
        => /\ call[r].contents =
                 <<[role |-> "user",
                    parts |-> <<[text |-> call[r].input[1].content.s]>>]>>
           /\ call[r].systemText = <<>>

C28_Witness ==
    \E r \in Slots :
        /\ Returned(r)
        /\ call[r].input = <<UserText(<<Ws(" "), Word("hi"), Ws("\n")>>)>>
        /\ call[r].modelName = ClaudeModel
        /\ call[r].contents[1].parts[1].text = <<Ws(" "), Word("hi"), Ws("\n")>>

-----------------------------------------------------------------------------
(* The family of a model name.                                              *)

LowerChar(c) ==
    CASE c = "C" -> "c"
      [] c = "G" -> "g"
      [] c = "E" -> "e"
      [] c = "M" -> "m"
      [] c = "I" -> "i"
      [] c = "N" -> "n"
      [] OTHER -> c

Lower(s) == [k \in 1..Len(s) |-> LowerChar(s[k])]

\* the family the claim gives a model name
FamilyIgnoringCase(model) == getModelFamily(Lower(model))

\* C29: a call for a model name that holds claude (or gemini) in any letter
\* case makes claude (or gemini) the active family, and when the family it
\* has without regard to case was the active one already, the call clears
\* nothing from the ledger.
C29_FamilyIgnoresCase ==
    \A r \in Slots :
        call[r].pc # "idle" =>
            /\ lastProcessedModelFamily = FamilyIgnoringCase(call[r].modelName)
            /\ call[r].prior = FamilyIgnoringCase(call[r].modelName)
                   => call[r].cleared = {}

-----------------------------------------------------------------------------
(* Signatures recovered by transformRequestIn.                              *)

\* the first tool call of message i of the request had no signature of its
\* own and a fingerprint that the cache held when the call ran
Recoverable(i) ==
    /\ request.messages[i].tool_calls # <<>>
    /\ Falsy(request.messages[i].tool_calls[1].thought_signature)
    /\ generateCallKeyFromToolCall(request.messages[i].tool_calls[1])
           \in DOMAIN request.cache

\* C30: after transformRequestIn, the first tool call of a message that had
\* no signature of its own and whose fingerprint was in the cache carries
\* the cached signature of that fingerprint; a first tool call that came
\* with a thought_signature is the same in the result; every tool call
\* after the first of its message is the same in the result; and the first
\* tool call changes in nothing but its thought_signature.
C30_SignatureRecovered ==
    request.done =>
        /\ Len(request.newReq) = Len(request.messages)
        /\ \A i \in 1..Len(request.messages) :
               LET before == request.messages[i].tool_calls
                   after == request.newReq[i].tool_calls
               IN  /\ Len(after) = Len(before)
                   /\ \A k \in 2..Len(before) : after[k] = before[k]
                   /\ before # <<>> =>
                          /\ [after[1] EXCEPT !.thought_signature = Undefined]
                                 = [before[1] EXCEPT
                                       !.thought_signature = Undefined]
                          /\ ~Falsy(before[1].thought_signature)
                                 => after[1] = before[1]
                          /\ Recoverable(i) =>
                                 after[1].thought_signature =
                                     request.cache[
                                         generateCallKeyFromToolCall(
                                             before[1])].signature

\* a request made when the cache holds a signature for its tool call and
\* the latest thinking signature is another one: the cached one is set
C30_Witness ==
    /\ request.done
    /\ request.latest = "SIGT"
    /\ \E i \in 1..Len(request.messages) :
           /\ Recoverable(i)
           /\ request.newReq[i].tool_calls[1].thought_signature = "SIGX"

-----------------------------------------------------------------------------
(* Images that cannot be obtained.                                          *)

\* the fetch of the url of an item fails
FetchFails(item, modelName) ==
    /\ item.type = "image_url"
    /\ IsFetched(item.url, modelName)
    /\ item.url.fate # "ok"

\* the items of a content without those whose fetch fails
Obtained(items, modelName) ==
    SelectSeq(items, LAMBDA item : ~FetchFails(item, modelName))

\* one image_url item that can be had, as a part
AsPart(item, modelName) ==
    [inlineData |->
        IF item.url.scheme = "data"
        THEN [mimeType |-> item.url.format, data |-> item.url.data]
        ELSE [mimeType |-> IF item.url.contentType = Undefined
                           THEN "image/jpeg" ELSE item.url.contentType,
              data |-> item.url.data]]

\* the image_url items that can be had: data URIs, and for a claude model
\* the public urls
Pictures(items, modelName) ==
    SelectSeq(Obtained(items, modelName),
              LAMBDA item : /\ item.type = "image_url"
                            /\ \/ item.url.scheme = "data"
                               \/ IsFetched(item.url, modelName))

TextsOf(items) == SelectSeq(items, LAMBDA item : item.type = "text")

RECURSIVE Joined(_)
Joined(texts) ==
    IF texts = <<>> THEN <<>> ELSE Head(texts).text \o Joined(Tail(texts))

UserMessagesOf(messages) == SelectSeq(messages, LAMBDA m : m.role = "user")

UserContentsOf(contents) == SelectSeq(contents, LAMBDA c : c.role = "user")

\* C31: a conversion of user and plain assistant messages never fails,
\* whatever becomes of the fetches; every user message gives one user
\* content, in order; the content of a message with parts holds the text
\* of its text items in their order, then one image for each image item
\* whose fetch did not fail, in the order of the items.
C31_FailedImageOmitted ==
    \A r \in Slots :
        /\ call[r].pc # "threw"
        /\ Returned(r) =>
               LET users == UserMessagesOf(call[r].input)
                   outs == UserContentsOf(call[r].contents)
               IN  /\ Len(outs) = Len(users)
                   /\ \A i \in 1..Len(users) :
                          users[i].content.kind = "array" =>
                              LET items == users[i].content.items
                                  pics == Pictures(items, call[r].modelName)
                              IN  outs[i].parts =
                                      <<[text |-> Joined(TextsOf(items))]>>
                                      \o [k \in 1..Len(pics) |->
                                             AsPart(pics[k], call[r].modelName)]

\* a claude call whose first message has a fetch that rejects between two
\* texts and before a data URI, and whose second message was converted too
C31_Witness ==
    \E r \in Slots :
        /\ Returned(r)
        /\ call[r].modelName = ClaudeModel
        /\ Len(call[r].input) = 2
        /\ call[r].input[1] =
               UserParts(<<PlainItem("a"), ImageItem(HttpB("throws")),
                           PlainItem("b"), ImageItem(DataA)>>)
        /\ FetchFails(call[r].input[1].content.items[2], ClaudeModel)
        /\ call[r].contents[1].parts =
               <<[text |-> <<Word("a"), Word("b")>>],
                 [inlineData |-> [mimeType |-> Png, data |-> "AAAA"]]>>
        /\ Len(call[r].contents[2].parts) = 3

-----------------------------------------------------------------------------
(* Tool parameter schemas.                                                  *)

\* C32: a call of convertOpenAIToolsToAntigravity for a model that is not of
\* the claude family returns one declaration for each tool, with the
\* parameter schema the caller supplied, and leaves the caller's tools as
\* they were.
C32_SchemasPassThrough ==
    (toolsCall.done /\ getModelFamily(toolsCall.modelName) # "claude") =>
        /\ ~toolsCall.threw
        /\ toolsCall.tools = toolsCall.input
        /\ Len(toolsCall.out) = Len(toolsCall.input)
        /\ \A k \in 1..Len(toolsCall.out) :
               <<toolsCall.out[k].functionDeclarations[1].parameters>>
                   = toolsCall.input[k].parameters

-----------------------------------------------------------------------------
(* The active family as a state machine.                                    *)

\* slot r begins a call in this step: its pre-pass has run
Begins(r) == call[r].pc = "idle" /\ call'[r].pc # "idle"

\* C33: a conversion call makes the family of its model the active family,
\* whether it returns or fails in the loop over the messages; the first call
\* leaves the ledger as it is; a call empties the ledger when the active
\* family was set and was another one, and no other call and no other step
\* removes a signature from the ledger; once set, the active family is never
\* unset, and only a call changes it.
C33_FamilyStateMachine ==
    [][/\ lastProcessedModelFamily # Null => lastProcessedModelFamily' # Null
       /\ \A r \in Slots :
              Begins(r) =>
                  /\ call'[r].pc \in {"returned", "threw"}
                  /\ lastProcessedModelFamily'
                         = getModelFamily(call'[r].modelName)
                  /\ validSignaturesThisSession' =
                         IF /\ lastProcessedModelFamily # Null
                            /\ lastProcessedModelFamily
                                   # getModelFamily(call'[r].modelName)
                         THEN {}
                         ELSE validSignaturesThisSession
       /\ (\A r \in Slots : ~Begins(r)) =>
              /\ lastProcessedModelFamily' = lastProcessedModelFamily
              /\ validSignaturesThisSession \subseteq validSignaturesThisSession'
      ]_vars

\* the first call, made with a signature in the ledger, failed at a tool
\* call and has made its family the active one without clearing the ledger
C33_Witness ==
    \E r \in Slots :
        /\ call[r].pc = "threw"
        /\ call[r].prior = Null
        /\ lastProcessedModelFamily = getModelFamily(call[r].modelName)
        /\ validSignaturesThisSession # {}

-----------------------------------------------------------------------------
(* Buffering before replay.                                                 *)

\* C34: for a response that transformResponseOut reads, the new response is
\* returned and chunks are handed downstream only when every chunk of the
\* upstream body has been read, and the signature cache and the latest
\* thinking signature change only while the call is still reading, with
\* nothing returned and nothing handed downstream.
C34_NothingDownstreamBeforeEnd ==
    [][/\ (stream'.returned = "new" \/ stream'.downstream # <<>>) =>
              /\ stream'.pc \in {"replaying", "closed"}
              /\ stream'.chunks = stream'.response.chunks
       /\ (\/ signatureCache' # signatureCache
           \/ latestThinkingSignature' # latestThinkingSignature) =>
              /\ stream.pc = "reading"
              /\ stream'.pc = "reading"
              /\ stream'.returned = "none"
              /\ stream'.downstream = <<>>
      ]_vars

\* the first of two chunks has been handed downstream, and the cache holds
\* the entry that the second chunk gave
C34_Witness ==
    /\ stream.pc = "replaying"
    /\ stream.response.chunks =
           <<<<Whole(LineX1)>>, <<Whole(LineX), Whole(OtherLine)>>>>
    /\ stream.downstream = <<<<Whole(LineX1)>>>>
    /\ signatureCache[[kind |-> "id", id |-> IdX]].signature = "SIGX"

-----------------------------------------------------------------------------
(* What a failed call leaves behind.                                        *)

RECURSIVE UntilBad(_)
\* the tool calls that come before the first one with bad arguments
UntilBad(calls) ==
    IF calls = <<>> \/ BadArguments(Head(calls).tc) THEN <<>>
    ELSE <<Head(calls)>> \o UntilBad(Tail(calls))

\* C35: when the read of the upstream fails, the call has returned no
\* response and handed nothing downstream, and every signed tool call of
\* the chunks read before the failure (the last with its fingerprint) is in
\* the cache; when a conversion has failed at a tool call with bad
\* arguments, the family of its model is the active family, the ledger is
\* empty if that was a switch of family, and every tool call before the bad
\* one is in the registry under its id with its name.
C35_PartialStateCommitted ==
    /\ stream.pc = "failed" =>
          /\ stream.returned = "none"
          /\ stream.out = NoResponse
          /\ stream.downstream = <<>>
          /\ LET calls == CallsOfLines(WholeLines(Pieces(stream.chunks)), FALSE)
             IN  \A i \in 1..Len(calls) :
                    LastSigned(calls, i) =>
                        CachedAs(calls[i].tc, calls[i].tc.thought_signature)
    /\ \A r \in Slots :
          call[r].pc = "threw" =>
              /\ lastProcessedModelFamily = getModelFamily(call[r].modelName)
              /\ (/\ call[r].prior # Null
                  /\ call[r].prior # getModelFamily(call[r].modelName))
                     => validSignaturesThisSession = {}
              /\ LET calls == UntilBad(FlatCalls(call[r].input))
                 IN  \A k \in 1..Len(calls) :
                        /\ ToolCallId(calls[k].tc) \in DOMAIN toolCallIdToName
                        /\ toolCallIdToName[ToolCallId(calls[k].tc)]
                               = calls[k].tc.name

\* a stream has failed after a chunk that gave the cache an entry, and a
\* conversion that switched the family and cleared the ledger has failed
\* after it put a tool call in a registry that did not know it
C35_Witness ==
    /\ stream.pc = "failed"
    /\ stream.chunks # <<>>
    /\ signatureCache # <<>>
    /\ \E r \in Slots :
          /\ call[r].pc = "threw"
          /\ call[r].cleared # {}
          /\ IdC \notin DOMAIN call[r].registry0
          /\ IdC \in DOMAIN toolCallIdToName

-----------------------------------------------------------------------------
(* Chunkings of one byte stream.                                            *)

\* the chunking of the lines of a body that puts all of them, whole, in one
\* chunk
OneChunk(chunks) ==
    LET lines == StreamLines(Pieces(chunks))
    IN  [k \in 1..Len(lines) |-> Whole(lines[k])]

\* C36: when the first stream of an adapter instance has been processed,
\* the cache and the latest thinking signature are those that the same
\* lines give when they arrive whole in one chunk.
C36_CaptureIgnoresChunking ==
    Processed =>
        [cache |-> signatureCache, latest |-> latestThinkingSignature]
            = processChunkForSignatures(
                  [cache |-> <<>>, latest |-> Undefined],
                  OneChunk(stream.response.chunks))

-----------------------------------------------------------------------------
(* Where the signature of a cache entry comes from.                         *)

\* the signatures on the data lines of chunks: those of the tool calls and
\* those of the thinking parts
SignaturesIn(chunks) ==
    LET lines == WholeLines(Pieces(chunks))
        calls == CallsOfLines(lines, FALSE)
    IN  ({calls[k].tc.thought_signature : k \in 1..Len(calls)}
         \cup {lines[k].payload.thinking :
                  k \in {j \in 1..Len(lines) :
                            lines[j].t = "data" /\ lines[j].payload.ok}})
        \ {Undefined}

\* C37: an entry that a step writes to the cache, new or changed, holds a
\* signature that is on a data line of the chunks read so far of the stream
\* being processed.
C37_EntryFromSameStream ==
    [][\A k \in DOMAIN signatureCache' :
           (k \notin DOMAIN signatureCache
            \/ signatureCache'[k] # signatureCache[k])
           => signatureCache'[k].signature \in SignaturesIn(stream'.chunks)
      ]_vars

-----------------------------------------------------------------------------
(* The cache over captures and requests.                                    *)

\* the tool calls on the data lines of the chunk that this step reads
CallsRead ==
    CallsOfLines(WholeLines(stream'.chunks[Len(stream'.chunks)]), FALSE)

\* cache maps the fingerprint of tc to sig
CachedIn(cache, tc, sig) ==
    IF tc.id # <<>>
    THEN /\ [kind |-> "id", id |-> tc.id] \in DOMAIN cache
         /\ cache[[kind |-> "id", id |-> tc.id]].signature = sig
    ELSE \E k \in DOMAIN cache :
            /\ k.kind = "call"
            /\ k.name = tc.name
            /\ cache[k].signature = sig

\* this step reads a chunk
Reads == Len(stream'.chunks) = Len(stream.chunks) + 1

\* C38: a step that reads a chunk leaves in the cache, for every signed
\* tool call of the chunk that is the last of the chunk with its
\* fingerprint, the signature of that call, whatever the entry was before;
\* no step removes a fingerprint from the cache; a transformRequestIn call
\* leaves the cache as it is, and the request it was given is after the call
\* what it was before.
C38_CacheUpsertOnly ==
    [][/\ DOMAIN signatureCache \subseteq DOMAIN signatureCache'
       /\ Reads =>
              \A i \in 1..Len(CallsRead) :
                  LastSigned(CallsRead, i) =>
                      CachedIn(signatureCache', CallsRead[i].tc,
                               CallsRead[i].tc.thought_signature)
       /\ request' # request =>
              /\ signatureCache' = signatureCache
              /\ latestThinkingSignature' = latestThinkingSignature
              /\ request'.after = request'.messages
      ]_vars

\* the entry of id X holds the signature of the second capture, and a
\* request that got it restored is as the caller made it
C38_Witness ==
    /\ stream.pc = "replaying"
    /\ stream.response.chunks = <<<<Whole(LineX1)>>>>
    /\ request.done
    /\ request.cache = [k \in {[kind |-> "id", id |-> IdX]} |->
                           [signature |-> "SIGX"]]
    /\ request.newReq # request.messages
    /\ request.after = request.messages
    /\ signatureCache[[kind |-> "id", id |-> IdX]].signature = "SIG1"

-----------------------------------------------------------------------------
(* The order of the parts of a model content.                               *)

\* 1 for a thought part, 2 for a text part, 3 for a functionCall part
Rank(part) ==
    IF IsCallPart(part) THEN 3
    ELSE IF MarkedThought(part) THEN 1
    ELSE 2

\* C39: in every model content of returned contents no part comes after a
\* part of a later kind, the kinds being thought, then text, then
\* functionCall; and the functionCall parts of the contents, in order, are
\* those of the tool calls of the history, in order.
C39_CallsComeLast ==
    \A r \in Slots :
        Returned(r) =>
            /\ \A c \in 1..Len(call[r].contents) :
                   call[r].contents[c].role = "model" =>
                       LET parts == call[r].contents[c].parts
                       IN  \A i \in 1..Len(parts) : \A j \in i..Len(parts) :
                               Rank(parts[i]) <= Rank(parts[j])
            /\ LET calls == FlatCalls(call[r].input)
                   parts == CallParts(call[r].contents)
               IN  /\ Len(parts) = Len(calls)
                   /\ \A k \in 1..Len(calls) :
                          parts[k].functionCall.name = calls[k].tc.name

\* a content with a thought, a text and a tool call of one turn, and after
\* them the tool calls of the next turn
C39_Witness ==
    \E r \in Slots :
        /\ Returned(r)
        /\ Len(call[r].input) = 2
        /\ Len(call[r].contents) = 1
        /\ Len(call[r].contents[1].parts) = 5
        /\ Rank(call[r].contents[1].parts[1]) = 1
        /\ Rank(call[r].contents[1].parts[2]) = 2
        /\ Rank(call[r].contents[1].parts[3]) = 3

=========================================================================
